---- MODULE Spec2Model ----
(***************************************************************************)
(* Model of the reup tick-data pipeline.                                   *)
(*                                                                         *)
(* Part 1: polygon_time_series.get_seconds_df, the per-second resampler    *)
(* that walks a quote stream and a trade stream with two cursors.          *)
(*                                                                         *)
(* Numbers.  Timestamps are integers; the source divides nanoseconds by    *)
(* 10.0**9 to get seconds, the model divides by SubSecond.  Prices are     *)
(* integers counted in units of the float64 machine epsilon, so that       *)
(* "price - eps" is exact.  Quotients (vwap) are kept as reduced fractions *)
(* <<numerator, denominator>>.                                             *)
(*                                                                         *)
(* Nullable cells (pd.NA / NaN) are NA == <<>>; a present value v is the   *)
(* one-element tuple <<v>>.                                                *)
(***************************************************************************)
EXTENDS Integers, Sequences, FiniteSets, TLC

\* ------------------------------------------------------------------ bounds

\* Longest quote stream and longest trade stream that Init enumerates.
MaxQuotes == 3
MaxTrades == 2
\* Most ticks, quotes and trades together, in one (symbol, day) unit.
MaxTicks == 4
\* Largest raw timestamp (in sub-second ticks) a tick may carry.
MaxTs == 3
\* Sub-second ticks per second: the model's stand-in for 10.0**9.
SubSecond == 2
\* Longest trade stream handed to the trade filter.
MaxFilterTrades == 3
\* Most rows of a time series handed to the feature stages.
MaxRows == 3
\* Longest time window (in rows) the feature stages are configured with.
MaxWindow == 3
\* Timestamp of the first row of a time series handed to the feature stages.
SeriesStart == 5
\* Seconds from the configured market open to the configured market close.
SessionLength == 2

\* ------------------------------------------------------------- nullable

NA == <<>>

Some(v) == <<v>>

IsNA(x) == x = NA

Val(x) == x[1]

\* ------------------------------------------------------------ arithmetic

RECURSIVE Gcd(_, _)
Gcd(a, b) == IF b = 0 THEN a ELSE Gcd(b, a % b)

\* a / b for a >= 0, b > 0, as a reduced fraction.
Div(a, b) == LET g == Gcd(a, b) IN <<a \div g, b \div g>>

\* np.finfo(np.float64).eps, in price units.
Eps == 1

\* math.ceil(sip_timestamp / 10.0**9)
MathCeil_Floor(ts) == ts \div SubSecond

MathCeil(ts) == (ts + SubSecond - 1) \div SubSecond

\* Mutant of SecondsLeq: a tick exactly on the second is left to the next row.
SecondsLeq_Strict(ts, current_timestamp) == ts < current_timestamp * SubSecond

\* sip_timestamp / 10.0**9 <= current_timestamp
SecondsLeq(ts, current_timestamp) == ts <= current_timestamp * SubSecond

\* Mutant of Linspace: the end point is left out (endpoint=False).
Linspace_NoEndpoint(start, stop, num) ==
    [k \in 1..num |-> start + ((k - 1) * (stop - start)) \div num]

\* np.linspace(start, stop, num): num evenly spaced samples, both ends included.
Linspace(start, stop, num) ==
    [k \in 1..num |->
        IF num = 1 THEN start
        ELSE start + ((k - 1) * (stop - start)) \div (num - 1)]

\* str(price): the key of volume_price_dict.
PriceKey(price) == ToString(price)

\* ------------------------------------------------------------ tick inputs

Timestamps == 0..MaxTs

\* Inside-market levels a quote may carry (sizes are in lots).
QuoteBook ==
    { [bid_price |-> 1, bid_size |-> 1, ask_price |-> 5, ask_size |-> 2],
      [bid_price |-> 3, bid_size |-> 2, ask_price |-> 4, ask_size |-> 3] }

\* Prints a trade may carry.
TradeBook ==
    { [price |-> 2, size |-> 1],
      [price |-> 3, size |-> 2],
      [price |-> 4, size |-> 1],
      [price |-> 3, size |-> 0] }

Quotes ==
    { [sip_timestamp |-> t, bid_price |-> q.bid_price, bid_size |-> q.bid_size,
       ask_price |-> q.ask_price, ask_size |-> q.ask_size]
      : t \in Timestamps, q \in QuoteBook }

Trades ==
    { [sip_timestamp |-> t, price |-> p.price, size |-> p.size]
      : t \in Timestamps, p \in TradeBook }

\* The Tick Loader's contract: a stream is ascending by sip_timestamp.
IsSorted(s) ==
    \A k \in 1..(Len(s) - 1) : s[k].sip_timestamp <= s[k + 1].sip_timestamp

SortedStreams(S, maxLen) ==
    UNION { { s \in [1..n -> S] : IsSorted(s) } : n \in 0..maxLen }

\* ------------------------------------------------------------------ state

VARIABLES
    quotes_df,          \* input: quote ticks
    trades_df,          \* input: trade ticks
    seconds_df,         \* the frame being filled, one record per second
    i,                  \* for-loop index (0-based)
    current_timestamp,  \* seconds_df.at[i, 'timestamp']
    quotes_row,         \* quote cursor (0-based: number of quotes consumed)
    trades_row,         \* trade cursor
    last_value,         \* forward-fill state
    volume_price_dict,  \* this second's dict, in insertion order
    total,              \* this second's accumulators
    pc,                 \* position in the running function
    trade_conditions,   \* trade filter: the codes to discard
    discard_df,         \* trade filter: the frame it returns
    s3_output,          \* main_lambda: the object put under s3_key_output
    time_series_df,     \* feature stages: the per-second series read from S3
    time_windows,       \* feature stages: the configured window lengths
    open_timestamp,     \* features_day: market open, in seconds
    close_timestamp,    \* features_day: market close, in seconds
    temp_df,            \* features_second: helper columns
    output_df,          \* feature stages: the frame being built, by column
    window_pos,         \* feature stages: number of time windows handled
    open_slice_row,     \* features_day: index of the open row
    close_slice_row,    \* features_day: index after the close row
    data_frames,        \* join_columns: the frames to join
    column_prefixes,    \* join_columns: one prefix per frame
    index_column_name,  \* join_columns: the column to join on, or ""
    data_frames_output, \* join_columns: the renamed copies
    day_ticks,          \* polygon_download: the day's ticks held by the API
    response_limit,     \* polygon_download: max results per request
    min_timestamp,      \* polygon_download: where the next request starts
    last_results,       \* polygon_download: the previous page, or None
    csv_strings,        \* polygon_download: the CSV rows so far
    response,           \* polygon_download: the results of the last request
    api_results,        \* polygon_download: every result returned, in order
    date_symbol_dict,   \* pipeline: the (date, symbol) pairs of the stage
    max_retry_count,    \* pipeline: the retries allowed
    retry_count,        \* pipeline: the retries made
    pending_date_symbol_dict, \* pipeline: what get_pending_invocations returned
    run_calls           \* pipeline: the number of calls of lambda_invoke.run

vars == <<quotes_df, trades_df, seconds_df, i, current_timestamp, quotes_row,
          trades_row, last_value, volume_price_dict, total, pc,
          trade_conditions, discard_df, s3_output, time_series_df,
          time_windows, open_timestamp, close_timestamp, temp_df, output_df,
          window_pos, open_slice_row, close_slice_row, data_frames,
          column_prefixes, index_column_name, data_frames_output,
          day_ticks, response_limit, min_timestamp, last_results,
          csv_strings, response, api_results, date_symbol_dict,
          max_retry_count, retry_count, pending_date_symbol_dict, run_calls>>

\* The state of the feature stages.
features_state == <<time_series_df, time_windows, open_timestamp,
                    close_timestamp, temp_df, output_df, window_pos,
                    open_slice_row, close_slice_row>>

\* The state of join_columns.get_output_df, output_df apart.
join_state == <<data_frames, column_prefixes, index_column_name,
                data_frames_output>>

\* The state of polygon_download.fetch_csv_data.
download_state == <<day_ticks, response_limit, min_timestamp, last_results,
                    csv_strings, response, api_results>>

\* The state of pipeline.run_stage.
pipeline_state == <<date_symbol_dict, max_retry_count, retry_count,
                    pending_date_symbol_dict, run_calls>>

\* The state of the stages around the resampler and the feature stages.
other_stages == <<join_state, download_state, pipeline_state>>

\* What get_seconds_df never touches.
outside_resampler == <<trade_conditions, discard_df, s3_output, features_state,
                       other_stages>>

\* What the feature stages never touch.
outside_features == <<quotes_df, trades_df, seconds_df, current_timestamp,
                      quotes_row, trades_row, last_value, volume_price_dict,
                      total, trade_conditions, discard_df, s3_output,
                      other_stages>>

\* A frame with no column.
NoFrame == [c \in {} |-> NA]

\* The feature stages have not been invoked.
JoinIdle ==
    /\ data_frames = <<>>
    /\ column_prefixes = <<>>
    /\ index_column_name = ""
    /\ data_frames_output = <<>>

DownloadIdle ==
    /\ day_ticks = <<>>
    /\ response_limit = 0
    /\ min_timestamp = 0
    /\ last_results = "None"
    /\ csv_strings = <<>>
    /\ response = <<>>
    /\ api_results = <<>>

PipelineIdle ==
    /\ date_symbol_dict = {}
    /\ max_retry_count = 0
    /\ retry_count = 0
    /\ pending_date_symbol_dict = {}
    /\ run_calls = 0

OtherStagesIdle == JoinIdle /\ DownloadIdle /\ PipelineIdle

FeaturesIdle ==
    /\ time_series_df = <<>>
    /\ time_windows = <<>>
    /\ open_timestamp = 0
    /\ close_timestamp = 0
    /\ temp_df = NoFrame
    /\ output_df = NoFrame
    /\ window_pos = 0
    /\ open_slice_row = 0
    /\ close_slice_row = 0

\* ------------------------------------------------------- init_seconds_df

\* One row of the frame built by init_seconds_df: only timestamp is set.
EmptyRow(ts) ==
    [timestamp |-> ts,
     bid_price |-> NA, bid_size |-> NA, ask_price |-> NA, ask_size |-> NA,
     last_trade_price |-> NA, vwap |-> NA, volume_price_dict |-> NA,
     volume_total |-> NA, volume_aggressive_buy |-> NA,
     volume_aggressive_sell |-> NA, message_count_quote |-> NA,
     message_count_trade |-> NA]

init_seconds_df(quotes) ==
    LET start_time == MathCeil(quotes[1].sip_timestamp)
        end_time == MathCeil(quotes[Len(quotes)].sip_timestamp)
        timestamp_values == Linspace(start_time, end_time, end_time - start_time + 1)
    IN  [k \in 1..Len(timestamp_values) |-> EmptyRow(timestamp_values[k])]

LastValueInit ==
    [bid_price |-> NA, bid_size |-> NA, ask_price |-> NA, ask_size |-> NA,
     trade_price |-> NA, trade_size |-> NA]

TotalInit ==
    [volume |-> 0, volume_aggressive_buy |-> 0, volume_aggressive_sell |-> 0,
     price |-> 0, message_count_quote |-> 0, message_count_trade |-> 0]

Init ==
    /\ quotes_df \in SortedStreams(Quotes, MaxQuotes)
    /\ trades_df \in SortedStreams(Trades, MaxTrades)
    /\ Len(quotes_df) + Len(trades_df) <= MaxTicks
    /\ seconds_df = <<>>
    /\ i = 0
    /\ current_timestamp = 0
    /\ quotes_row = 0
    /\ trades_row = 0
    /\ last_value = LastValueInit
    /\ volume_price_dict = <<>>
    /\ total = TotalInit
    /\ pc = "start"
    /\ trade_conditions = {}
    /\ discard_df = <<>>
    /\ s3_output = NA
    /\ FeaturesIdle
    /\ OtherStagesIdle

\* ---------------------------------------------------------- get_seconds_df

\* Lines 81-91.  quotes_df.at[0, ...] raises KeyError on an empty frame.
InitSecondsDf ==
    /\ pc = "start"
    /\ IF Len(quotes_df) = 0
       THEN /\ pc' = "error"
            /\ UNCHANGED seconds_df
       ELSE /\ seconds_df' = init_seconds_df(quotes_df)
            /\ pc' = "for"
    /\ quotes_row' = 0
    /\ trades_row' = 0
    /\ last_value' = LastValueInit
    /\ UNCHANGED <<outside_resampler, quotes_df, trades_df, i, current_timestamp,
                   volume_price_dict, total>>

\* Mutant of ForRow: the forward-fill state is re-initialised with the totals.
ForRow_ResetLastValue ==
    /\ pc = "for"
    /\ i < Len(seconds_df)
    /\ current_timestamp' = seconds_df[i + 1].timestamp
    /\ volume_price_dict' = <<>>
    /\ total' = TotalInit
    /\ last_value' = LastValueInit
    /\ pc' = "quotes"
    /\ UNCHANGED <<outside_resampler, quotes_df, trades_df, seconds_df, i,
                   quotes_row, trades_row>>

\* Mutant of ForRow: the totals are carried over from the previous row.
ForRow_KeepTotals ==
    /\ pc = "for"
    /\ i < Len(seconds_df)
    /\ current_timestamp' = seconds_df[i + 1].timestamp
    /\ volume_price_dict' = <<>>
    /\ total' = [total EXCEPT !.message_count_quote = 0,
                              !.message_count_trade = 0]
    /\ pc' = "quotes"
    /\ UNCHANGED <<outside_resampler, quotes_df, trades_df, seconds_df, i,
                   quotes_row, trades_row, last_value>>

\* Lines 94-104: enter the body for row i.
ForRow_Rewind ==
    /\ pc = "for"
    /\ i < Len(seconds_df)
    /\ current_timestamp' = seconds_df[i + 1].timestamp
    /\ volume_price_dict' = <<>>
    /\ total' = TotalInit
    /\ quotes_row' = 0
    /\ pc' = "quotes"
    /\ UNCHANGED <<outside_resampler, quotes_df, trades_df, seconds_df, i,
                   trades_row, last_value>>

ForRow_DropQuote ==
    /\ pc = "for"
    /\ i < Len(seconds_df)
    /\ current_timestamp' = seconds_df[i + 1].timestamp
    /\ volume_price_dict' = <<>>
    /\ total' = TotalInit
    /\ quotes_row' = IF quotes_row < Len(quotes_df) THEN quotes_row + 1
                     ELSE quotes_row
    /\ pc' = "quotes"
    /\ UNCHANGED <<outside_resampler, quotes_df, trades_df, seconds_df, i,
                   trades_row, last_value>>

ForRow ==
    /\ pc = "for"
    /\ i < Len(seconds_df)
    /\ current_timestamp' = seconds_df[i + 1].timestamp
    /\ volume_price_dict' = <<>>
    /\ total' = TotalInit
    /\ pc' = "quotes"
    /\ UNCHANGED <<outside_resampler, quotes_df, trades_df, seconds_df, i, quotes_row, trades_row,
                   last_value>>

QuoteLoopCond ==
    /\ quotes_row < Len(quotes_df)
    /\ SecondsLeq(quotes_df[quotes_row + 1].sip_timestamp, current_timestamp)

\* Lines 107-111: one iteration of the quote loop.
QuoteStep ==
    /\ pc = "quotes"
    /\ QuoteLoopCond
    /\ total' = [total EXCEPT !.message_count_quote = @ + 1]
    /\ quotes_row' = quotes_row + 1
    /\ UNCHANGED <<outside_resampler, quotes_df, trades_df, seconds_df, i, current_timestamp,
                   trades_row, last_value, volume_price_dict, pc>>

\* Mutant of LastQuote: the sizes stay in lots.
LastQuote_Lots(last, quotes, row) ==
    [last EXCEPT !.bid_price = Some(quotes[row].bid_price),
                 !.bid_size = Some(quotes[row].bid_size),
                 !.ask_price = Some(quotes[row].ask_price),
                 !.ask_size = Some(quotes[row].ask_size)]

\* Lines 113-116: the inside market after the quote loop.
LastQuote(last, quotes, row) ==
    [last EXCEPT !.bid_price = Some(quotes[row].bid_price),
                 !.bid_size = Some(quotes[row].bid_size * 100),
                 !.ask_price = Some(quotes[row].ask_price),
                 !.ask_size = Some(quotes[row].ask_size * 100)]

\* Lines 107-116: the quote loop ends.  quotes_df.at[-1, ...] raises KeyError.
QuoteExit ==
    /\ pc = "quotes"
    /\ ~QuoteLoopCond
    /\ IF quotes_row = 0
       THEN /\ pc' = "error"
            /\ UNCHANGED last_value
       ELSE /\ last_value' = LastQuote(last_value, quotes_df, quotes_row)
            /\ pc' = "trades"
    /\ UNCHANGED <<outside_resampler, quotes_df, trades_df, seconds_df, i, current_timestamp,
                   quotes_row, trades_row, volume_price_dict, total>>

TradeLoopCond ==
    /\ trades_row < Len(trades_df)
    /\ SecondsLeq(trades_df[trades_row + 1].sip_timestamp, current_timestamp)

\* Mutant of DictAdd: a repeated price overwrites its bucket.
DictAdd_Overwrite(dict, price_key, size) ==
    IF \E k \in 1..Len(dict) : dict[k].key = price_key
    THEN [k \in 1..Len(dict) |->
            IF dict[k].key = price_key
            THEN [dict[k] EXCEPT !.volume = size]
            ELSE dict[k]]
    ELSE Append(dict, [key |-> price_key, volume |-> size])

\* Mutant of DictAdd: a new price is put in front, as an unordered mapping may.
DictAdd_Prepend(dict, price_key, size) ==
    IF \E k \in 1..Len(dict) : dict[k].key = price_key
    THEN [k \in 1..Len(dict) |->
            IF dict[k].key = price_key
            THEN [dict[k] EXCEPT !.volume = @ + size]
            ELSE dict[k]]
    ELSE <<[key |-> price_key, volume |-> size]>> \o dict

\* Lines 130-134: add a trade to the dict, keeping insertion order.
DictAdd(dict, price_key, size) ==
    IF \E k \in 1..Len(dict) : dict[k].key = price_key
    THEN [k \in 1..Len(dict) |->
            IF dict[k].key = price_key
            THEN [dict[k] EXCEPT !.volume = @ + size]
            ELSE dict[k]]
    ELSE Append(dict, [key |-> price_key, volume |-> size])

\* Mutant of IsAggressiveBuy: no tolerance and an exclusive boundary.
IsAggressiveBuy_Strict(last) ==
    /\ ~IsNA(last.ask_price)
    /\ Val(last.trade_price) > Val(last.ask_price)

\* Lines 136-138.
IsAggressiveBuy(last) ==
    /\ ~IsNA(last.ask_price)
    /\ Val(last.trade_price) >= Val(last.ask_price) - Eps

\* Lines 141-143.
IsAggressiveSell(last) ==
    /\ ~IsNA(last.bid_price)
    /\ Val(last.trade_price) <= Val(last.bid_price) + Eps

\* Lines 122-123.
LastTrade(last, trade) ==
    [last EXCEPT !.trade_price = Some(trade.price),
                 !.trade_size = Some(trade.size)]

\* Lines 124-126, 136-146: the accumulators after one trade.
Accumulate(tot, last) ==
    LET size == Val(last.trade_size)
        price == Val(last.trade_price)
    IN  [tot EXCEPT
            !.volume = @ + size,
            !.price = @ + size * price,
            !.volume_aggressive_buy =
                IF IsAggressiveBuy(last) THEN @ + size ELSE @,
            !.volume_aggressive_sell =
                IF IsAggressiveSell(last) THEN @ + size ELSE @,
            !.message_count_trade = @ + 1]

\* Lines 119-147: one iteration of the trade loop.
TradeStep ==
    /\ pc = "trades"
    /\ TradeLoopCond
    /\ LET last == LastTrade(last_value, trades_df[trades_row + 1])
       IN  /\ last_value' = last
           /\ total' = Accumulate(total, last)
           /\ volume_price_dict' =
                DictAdd(volume_price_dict, PriceKey(Val(last.trade_price)),
                        Val(last.trade_size))
    /\ trades_row' = trades_row + 1
    /\ UNCHANGED <<outside_resampler, quotes_df, trades_df, seconds_df, i, current_timestamp,
                   quotes_row, pc>>

\* json.dumps(volume_price_dict): the items in insertion order.
JsonDumps(dict) == [k \in 1..Len(dict) |-> <<dict[k].key, dict[k].volume>>]

\* Mutant of RowVwap: the plain mean price of the second's trades.
RowVwap_MeanPrice(row, tot) ==
    IF tot.message_count_trade > 0
    THEN [row EXCEPT !.vwap = Some(Div(tot.price, tot.message_count_trade))]
    ELSE row

\* Lines 155-156.
RowVwap(row, tot) ==
    IF tot.volume > 0
    THEN [row EXCEPT !.vwap = Some(Div(tot.price, tot.volume))]
    ELSE row

\* Lines 157-159.
RowDict(row, dict) ==
    IF dict # <<>>
    THEN [row EXCEPT !.volume_price_dict = Some(JsonDumps(dict))]
    ELSE row

\* Mutant of PopulateRow: a zero volume is left null, as vwap is.
PopulateRow_NullZero(row, last, tot, dict) ==
    LET r1 == [row EXCEPT
                 !.bid_price = last.bid_price,
                 !.bid_size = last.bid_size,
                 !.ask_price = last.ask_price,
                 !.ask_size = last.ask_size,
                 !.last_trade_price = last.trade_price]
        r2 == RowDict(RowVwap(r1, tot), dict)
        NonZero(v) == IF v > 0 THEN Some(v) ELSE NA
    IN  [r2 EXCEPT
            !.volume_total = NonZero(tot.volume),
            !.volume_aggressive_buy = NonZero(tot.volume_aggressive_buy),
            !.volume_aggressive_sell = NonZero(tot.volume_aggressive_sell),
            !.message_count_quote = Some(tot.message_count_quote),
            !.message_count_trade = Some(tot.message_count_trade)]

\* Lines 150-166: the cells written for row i.
PopulateRow(row, last, tot, dict) ==
    LET r1 == [row EXCEPT
                 !.bid_price = last.bid_price,
                 !.bid_size = last.bid_size,
                 !.ask_price = last.ask_price,
                 !.ask_size = last.ask_size,
                 !.last_trade_price = last.trade_price]
        r2 == RowDict(RowVwap(r1, tot), dict)
    IN  [r2 EXCEPT
            !.volume_total = Some(tot.volume),
            !.volume_aggressive_buy = Some(tot.volume_aggressive_buy),
            !.volume_aggressive_sell = Some(tot.volume_aggressive_sell),
            !.message_count_quote = Some(tot.message_count_quote),
            !.message_count_trade = Some(tot.message_count_trade)]

\* Lines 119-166: the trade loop ends and row i is written.
WriteRow ==
    /\ pc = "trades"
    /\ ~TradeLoopCond
    /\ seconds_df' =
         [seconds_df EXCEPT
            ![i + 1] = PopulateRow(@, last_value, total, volume_price_dict)]
    /\ i' = i + 1
    /\ pc' = "for"
    /\ UNCHANGED <<outside_resampler, quotes_df, trades_df, current_timestamp, quotes_row,
                   trades_row, last_value, volume_price_dict, total>>

\* Line 168: the loop is exhausted, the frame is returned.
Return ==
    /\ pc = "for"
    /\ i >= Len(seconds_df)
    /\ pc' = "done"
    /\ UNCHANGED <<outside_resampler, quotes_df, trades_df, seconds_df, i, current_timestamp,
                   quotes_row, trades_row, last_value, volume_price_dict, total>>

\* seconds_df.to_csv(index=False): one line of cells per row, in column order,
\* a null cell written as the empty field.
ToCsv(frame) ==
    [k \in 1..Len(frame) |->
        <<Some(frame[k].timestamp), frame[k].bid_price, frame[k].bid_size,
          frame[k].ask_price, frame[k].ask_size, frame[k].last_trade_price,
          frame[k].vwap, frame[k].volume_price_dict, frame[k].volume_total,
          frame[k].volume_aggressive_buy, frame[k].volume_aggressive_sell,
          frame[k].message_count_quote, frame[k].message_count_trade>>]

\* Mutant of PutObject: the frame is uploaded row by row while it is filled.
PutObject_Streaming ==
    /\ pc \in {"for", "done"}
    /\ s3_output' = Some(ToCsv(SubSeq(seconds_df, 1, i)))
    /\ pc' = IF pc = "done" THEN "uploaded" ELSE pc
    /\ s3_output' # s3_output \/ pc' # pc
    /\ UNCHANGED <<quotes_df, trades_df, seconds_df, i, current_timestamp,
                   quotes_row, trades_row, last_value, volume_price_dict, total,
                   trade_conditions, discard_df, features_state,
                   other_stages>>

\* main_lambda lines 226-236: get_seconds_df has returned, the frame is put.
PutObject ==
    /\ pc = "done"
    /\ s3_output' = Some(ToCsv(seconds_df))
    /\ pc' = "uploaded"
    /\ UNCHANGED <<quotes_df, trades_df, seconds_df, i, current_timestamp,
                   quotes_row, trades_row, last_value, volume_price_dict, total,
                   trade_conditions, discard_df, features_state,
                   other_stages>>

\* main_lambda lines 237-239: put_object raises ClientError, nothing is written.
PutObjectFails ==
    /\ pc = "done"
    /\ pc' = "error"
    /\ UNCHANGED <<quotes_df, trades_df, seconds_df, i, current_timestamp,
                   quotes_row, trades_row, last_value, volume_price_dict, total,
                   trade_conditions, discard_df, s3_output, features_state,
                   other_stages>>

Next ==
    \/ InitSecondsDf
    \/ ForRow
    \/ QuoteStep
    \/ QuoteExit
    \/ TradeStep
    \/ WriteRow
    \/ Return
    \/ PutObject
    \/ PutObjectFails

Spec == Init /\ [][Next]_vars


\* ============================================================ trade filter
\* polygon_time_series.discard_trade_conditions.  A conditions cell is null
\* (the trade carries no condition) or a string of codes separated by single
\* spaces; a string is the sequence of its characters.

IsSpace(c) == c = " "

\* str.split(' ') over the characters after position n, `token` being the
\* characters read since the last separator.
RECURSIVE SplitFrom(_, _, _)
SplitFrom(str, n, token) ==
    IF n > Len(str) THEN {token}
    ELSE IF IsSpace(str[n]) THEN {token} \cup SplitFrom(str, n + 1, <<>>)
    ELSE SplitFrom(str, n + 1, Append(token, str[n]))

\* Mutant of ConditionTokens: every substring counts, so "137" carries "37".
ConditionTokens_Substrings(cell) ==
    IF IsNA(cell) THEN {}
    ELSE { SubSeq(Val(cell), a, b) : a \in 1..Len(Val(cell)), b \in 1..Len(Val(cell)) }

\* The condition codes of a trade: none when the cell is null.
ConditionTokens(cell) == IF IsNA(cell) THEN {} ELSE SplitFrom(Val(cell), 1, <<>>)

\* A trade is discarded when one of its codes is a key of trade_conditions.
IsDiscarded(trade, conditions) ==
    ConditionTokens(trade.conditions) \cap conditions # {}

RECURSIVE discard_trade_conditions(_, _)
discard_trade_conditions(trades, conditions) ==
    IF trades = <<>> THEN <<>>
    ELSE IF IsDiscarded(Head(trades), conditions)
         THEN discard_trade_conditions(Tail(trades), conditions)
         ELSE <<Head(trades)>> \o discard_trade_conditions(Tail(trades), conditions)

\* Conditions cells of the input: null, one code, two codes, and a code that
\* merely contains another code.
ConditionCells ==
    { NA,
      Some(<<"1", "2">>),
      Some(<<"3", "7">>),
      Some(<<"1", "2", " ", "3", "7">>),
      Some(<<"5", "3", " ", "1", "2">>),
      Some(<<"1", "3", "7">>) }

\* Key sets of the discard mapping.
DiscardSets ==
    { {}, {<<"3", "7">>}, {<<"3", "7">>, <<"5", "3">>} }

FilterInputs ==
    UNION { { [k \in 1..n |->
                [sequence_number |-> k,
                 sip_timestamp |-> k \div 2,
                 price |-> 2 + (k % 3),
                 size |-> k,
                 conditions |-> cells[k]]]
              : cells \in [1..n -> ConditionCells] }
            : n \in 0..MaxFilterTrades }

InitFilter ==
    /\ trades_df \in FilterInputs
    /\ trade_conditions \in DiscardSets
    /\ discard_df = <<>>
    /\ pc = "filter"
    /\ quotes_df = <<>>
    /\ seconds_df = <<>>
    /\ i = 0
    /\ current_timestamp = 0
    /\ quotes_row = 0
    /\ trades_row = 0
    /\ last_value = LastValueInit
    /\ volume_price_dict = <<>>
    /\ total = TotalInit
    /\ s3_output = NA
    /\ FeaturesIdle
    /\ OtherStagesIdle

DiscardTradeConditions ==
    /\ pc = "filter"
    /\ discard_df' = discard_trade_conditions(trades_df, trade_conditions)
    /\ pc' = "filtered"
    /\ UNCHANGED <<quotes_df, trades_df, seconds_df, i, current_timestamp,
                   quotes_row, trades_row, last_value, volume_price_dict, total,
                   trade_conditions, s3_output, features_state,
                   other_stages>>

NextFilter == DiscardTradeConditions

SpecFilter == InitFilter /\ [][NextFilter]_vars

\* ============================================================== properties
\* What the claims speak of, computed from the two input streams alone.

\* get_seconds_df has returned its frame.
Returned == pc = "done"

RowIndexes == 1..Len(seconds_df)

\* The least whole number of seconds that is >= ts / 10^9.
CeilOfSeconds(ts) ==
    CHOOSE n \in 0..(ts + 1) : n * SubSecond >= ts /\ (n - 1) * SubSecond < ts

\* The ticks of a stream that belong to row r: those with
\* t_r - 1 < ts / 10^9 <= t_r, and for the first row all with ts / 10^9 <= t_0.
TicksOfRow(stream, r) ==
    LET t == seconds_df[r].timestamp
    IN  { k \in 1..Len(stream) :
            /\ stream[k].sip_timestamp <= t * SubSecond
            /\ r > 1 => stream[k].sip_timestamp > (t - 1) * SubSecond }

RECURSIVE SumSize(_)
SumSize(S) ==
    IF S = {} THEN 0
    ELSE LET k == CHOOSE x \in S : TRUE
         IN  trades_df[k].size + SumSize(S \ {k})

RECURSIVE SumSizePrice(_)
SumSizePrice(S) ==
    IF S = {} THEN 0
    ELSE LET k == CHOOSE x \in S : TRUE
         IN  trades_df[k].size * trades_df[k].price + SumSizePrice(S \ {k})

FilledFields ==
    {"bid_price", "bid_size", "ask_price", "ask_size", "last_trade_price"}

QuoteFields == {"bid_price", "bid_size", "ask_price", "ask_size"}

SameAsPrevious(r, fields) ==
    \A f \in fields : seconds_df[r][f] = seconds_df[r - 1][f]

\* ---- C1
\* C1: for a non-empty sorted quote stream the returned frame has exactly
\* ceil(last_quote_ts/1e9) - ceil(first_quote_ts/1e9) + 1 rows, its first
\* timestamp is ceil(first_quote_ts/1e9), its last is ceil(last_quote_ts/1e9),
\* and consecutive rows differ by exactly one second.
C1_RowSpan ==
    Returned =>
        LET first == CeilOfSeconds(quotes_df[1].sip_timestamp)
            last == CeilOfSeconds(quotes_df[Len(quotes_df)].sip_timestamp)
        IN  /\ Len(seconds_df) = last - first + 1
            /\ seconds_df[1].timestamp = first
            /\ seconds_df[Len(seconds_df)].timestamp = last
            /\ \A r \in 1..(Len(seconds_df) - 1) :
                 seconds_df[r + 1].timestamp - seconds_df[r].timestamp = 1

\* A returned frame of at least three rows whose last quote falls strictly
\* inside a second, so that the ceiling rounds up.
C1_Witness ==
    /\ Returned
    /\ Len(seconds_df) >= 3
    /\ quotes_df[Len(quotes_df)].sip_timestamp % SubSecond # 0

\* ---- C2
\* C2: forward-fill never regresses: if bid_price, bid_size, ask_price,
\* ask_size or last_trade_price is non-null in row a of the returned frame,
\* it is non-null in every later row b.
C2_NoRegress ==
    Returned =>
        \A a \in RowIndexes : \A b \in RowIndexes : \A f \in FilledFields :
            (a < b /\ ~IsNA(seconds_df[a][f])) => ~IsNA(seconds_df[b][f])

\* A frame whose first row has no trade price yet, a later row gets one, and a
\* still later row, with no trade of its own, keeps it.
C2_Witness ==
    /\ Returned
    /\ \E a \in RowIndexes : \E b \in RowIndexes :
        /\ 1 < a /\ a < b
        /\ IsNA(seconds_df[1].last_trade_price)
        /\ TicksOfRow(trades_df, a) # {}
        /\ TicksOfRow(trades_df, b) = {}
        /\ ~IsNA(seconds_df[b].last_trade_price)

\* ---- C3
\* C3 as stated: in every row after the first in which zero trades were
\* consumed, volume_total = 0, message_count_trade = 0, vwap and
\* volume_price_dict are null, and bid_price, bid_size, ask_price, ask_size and
\* last_trade_price all equal the previous row's values.
C3_Original ==
    Returned =>
        \A r \in RowIndexes :
            (r > 1 /\ TicksOfRow(trades_df, r) = {}) =>
                /\ seconds_df[r].volume_total = Some(0)
                /\ seconds_df[r].message_count_trade = Some(0)
                /\ IsNA(seconds_df[r].vwap)
                /\ IsNA(seconds_df[r].volume_price_dict)
                /\ SameAsPrevious(r, FilledFields)

\* C3 amended: in every row after the first in which zero trades were
\* consumed, volume_total = 0, message_count_trade = 0, vwap and
\* volume_price_dict are null and last_trade_price equals the previous row's
\* value; bid_price, bid_size, ask_price and ask_size equal the previous row's
\* values when no quote was consumed in that second either.
C3_NoTradeSecond ==
    Returned =>
        \A r \in RowIndexes :
            (r > 1 /\ TicksOfRow(trades_df, r) = {}) =>
                /\ seconds_df[r].volume_total = Some(0)
                /\ seconds_df[r].message_count_trade = Some(0)
                /\ IsNA(seconds_df[r].vwap)
                /\ IsNA(seconds_df[r].volume_price_dict)
                /\ SameAsPrevious(r, {"last_trade_price"})
                /\ TicksOfRow(quotes_df, r) = {} => SameAsPrevious(r, QuoteFields)

\* A second without trades that follows a second with volume, and in which a
\* quote moved the inside market.
C3_Witness ==
    /\ Returned
    /\ \E r \in RowIndexes :
        /\ r > 1
        /\ TicksOfRow(trades_df, r) = {}
        /\ TicksOfRow(quotes_df, r) # {}
        /\ seconds_df[r - 1].volume_total # Some(0)
        /\ ~IsNA(seconds_df[r].last_trade_price)
        /\ seconds_df[r].bid_price # seconds_df[r - 1].bid_price

\* ---- C4
\* C4: in every row after the first with message_count_quote = 0 and
\* message_count_trade = 0, the five forward-filled fields equal the previous
\* row's values, vwap and volume_price_dict are null, and volume_total,
\* volume_aggressive_buy and volume_aggressive_sell are 0, not null.
C4_EmptySecond ==
    Returned =>
        \A r \in RowIndexes :
            ( /\ r > 1
              /\ seconds_df[r].message_count_quote = Some(0)
              /\ seconds_df[r].message_count_trade = Some(0) ) =>
                /\ SameAsPrevious(r, FilledFields)
                /\ IsNA(seconds_df[r].vwap)
                /\ IsNA(seconds_df[r].volume_price_dict)
                /\ seconds_df[r].volume_total = Some(0)
                /\ seconds_df[r].volume_aggressive_buy = Some(0)
                /\ seconds_df[r].volume_aggressive_sell = Some(0)

\* A second with no tick at all between a second with aggressive volume and a
\* second in which the next quote changes the inside market.
C4_Witness ==
    /\ Returned
    /\ \E r \in RowIndexes :
        /\ r > 1 /\ r < Len(seconds_df)
        /\ seconds_df[r].message_count_quote = Some(0)
        /\ seconds_df[r].message_count_trade = Some(0)
        /\ seconds_df[r - 1].volume_aggressive_buy # Some(0)
        /\ ~IsNA(seconds_df[r - 1].vwap)
        /\ seconds_df[r + 1].bid_price # seconds_df[r].bid_price

\* ---- C5
\* C5: the volume and count fields are per second: in row r, volume_total and
\* message_count_trade are the total size and the number of the trades with
\* t_r - 1 < ts/1e9 <= t_r and message_count_quote is the number of quotes in
\* that interval; the first row covers every tick with ts/1e9 <= t_0.
C5_PerSecond ==
    Returned =>
        \A r \in RowIndexes :
            /\ seconds_df[r].volume_total = Some(SumSize(TicksOfRow(trades_df, r)))
            /\ seconds_df[r].message_count_trade =
                 Some(Cardinality(TicksOfRow(trades_df, r)))
            /\ seconds_df[r].message_count_quote =
                 Some(Cardinality(TicksOfRow(quotes_df, r)))

\* Two consecutive rows that both carry volume and quotes, the later one with
\* a tick exactly on its second.
C5_Witness ==
    /\ Returned
    /\ \E r \in RowIndexes :
        /\ r > 1
        /\ seconds_df[r - 1].volume_total # Some(0)
        /\ seconds_df[r].volume_total # Some(0)
        /\ seconds_df[r - 1].message_count_quote # Some(0)
        /\ seconds_df[r].message_count_quote # Some(0)
        /\ \E k \in TicksOfRow(trades_df, r) :
             trades_df[k].sip_timestamp = seconds_df[r].timestamp * SubSecond

\* The index of the last quote, in stream order, with ts/1e9 <= t_r.
LastQuoteAsOf(r) ==
    LET S == { k \in 1..Len(quotes_df) :
                 quotes_df[k].sip_timestamp <= seconds_df[r].timestamp * SubSecond }
    IN  CHOOSE k \in S : \A j \in S : j <= k

\* ---- C6
\* C6: in every row, bid_price and ask_price are those of the last quote in
\* stream order with ts/1e9 <= t, bid_size and ask_size are that quote's sizes
\* times 100, and a row in whose second no quote arrived repeats the previous
\* row's four fields.
C6_InsideMarket ==
    Returned =>
        \A r \in RowIndexes :
            LET q == quotes_df[LastQuoteAsOf(r)]
            IN  /\ seconds_df[r].bid_price = Some(q.bid_price)
                /\ seconds_df[r].ask_price = Some(q.ask_price)
                /\ seconds_df[r].bid_size = Some(q.bid_size * 100)
                /\ seconds_df[r].ask_size = Some(q.ask_size * 100)
                /\ (r > 1 /\ TicksOfRow(quotes_df, r) = {}) =>
                     SameAsPrevious(r, QuoteFields)

\* A frame with a row whose second took two quotes of different levels, and a
\* quoteless row after a row of another level than the first.
C6_Witness ==
    /\ Returned
    /\ \E r \in RowIndexes :
        /\ Cardinality(TicksOfRow(quotes_df, r)) = 2
        /\ \E j \in TicksOfRow(quotes_df, r) : \E k \in TicksOfRow(quotes_df, r) :
             quotes_df[j].bid_price # quotes_df[k].bid_price
    /\ \E r \in RowIndexes :
        /\ r > 1
        /\ TicksOfRow(quotes_df, r) = {}

AggressiveBuys(r) ==
    { k \in TicksOfRow(trades_df, r) :
        trades_df[k].price >= Val(seconds_df[r].ask_price) - Eps }

AggressiveSells(r) ==
    { k \in TicksOfRow(trades_df, r) :
        trades_df[k].price <= Val(seconds_df[r].bid_price) + Eps }

\* ---- C7
\* C7: each trade of a second adds its size to volume_aggressive_buy iff
\* price >= ask - eps and to volume_aggressive_sell iff price <= bid + eps,
\* bid and ask being that second's quote state; the boundary is inclusive and
\* the two tests are independent (a trade may count in both or in neither).
C7_Aggressive ==
    Returned =>
        \A r \in RowIndexes :
            /\ seconds_df[r].volume_aggressive_buy = Some(SumSize(AggressiveBuys(r)))
            /\ seconds_df[r].volume_aggressive_sell = Some(SumSize(AggressiveSells(r)))

\* A second with a sized trade exactly at the ask that counts as a buy and as a
\* sell, and a second with a sized trade that is neither.
C7_Witness ==
    /\ Returned
    /\ \E r \in RowIndexes : \E k \in AggressiveBuys(r) \cap AggressiveSells(r) :
        /\ trades_df[k].size > 0
        /\ trades_df[k].price = Val(seconds_df[r].ask_price)
    /\ \E r \in RowIndexes :
         \E k \in TicksOfRow(trades_df, r) \ (AggressiveBuys(r) \cup AggressiveSells(r)) :
            trades_df[k].size > 0

\* ---- C8
\* C8: in every row vwap is non-null iff volume_total > 0, and then it is
\* (sum of size * price over the second's trades) / volume_total; a second
\* without volume never inherits an earlier vwap.
C8_Vwap ==
    Returned =>
        \A r \in RowIndexes :
            LET volume == Val(seconds_df[r].volume_total)
                vwap == seconds_df[r].vwap
            IN  /\ ~IsNA(vwap) <=> volume > 0
                /\ ~IsNA(vwap) =>
                     Val(vwap)[1] * volume =
                        Val(vwap)[2] * SumSizePrice(TicksOfRow(trades_df, r))

\* A second with two sized trades of different sizes and prices, followed by a
\* second without volume, whose vwap is null.
C8_Witness ==
    /\ Returned
    /\ \E r \in RowIndexes :
        /\ r > 1
        /\ \E j \in TicksOfRow(trades_df, r - 1) : \E k \in TicksOfRow(trades_df, r - 1) :
            /\ trades_df[j].price # trades_df[k].price
            /\ trades_df[j].size # trades_df[k].size
            /\ trades_df[j].size > 0 /\ trades_df[k].size > 0
        /\ seconds_df[r].volume_total = Some(0)
        /\ IsNA(seconds_df[r].vwap)

PricesOfRow(r) == { trades_df[k].price : k \in TicksOfRow(trades_df, r) }

RECURSIVE SumVolumes(_)
SumVolumes(items) ==
    IF items = <<>> THEN 0 ELSE Head(items)[2] + SumVolumes(Tail(items))

\* ---- C9
\* C9: in every row volume_price_dict is non-null iff at least one trade was
\* consumed in that second; it then has one entry per distinct trade price of
\* the second, whose value is the total size traded at that price, and its
\* values sum to volume_total.
C9_VolumePriceDict ==
    Returned =>
        \A r \in RowIndexes :
            LET cell == seconds_df[r].volume_price_dict
                mine == TicksOfRow(trades_df, r)
            IN  /\ ~IsNA(cell) <=> mine # {}
                /\ ~IsNA(cell) =>
                    LET items == Val(cell)
                    IN  /\ Len(items) = Cardinality(PricesOfRow(r))
                        /\ \A p \in PricesOfRow(r) :
                             \E n \in 1..Len(items) :
                                items[n] = <<ToString(p),
                                             SumSize({ k \in mine : trades_df[k].price = p })>>
                        /\ Some(SumVolumes(items)) = seconds_df[r].volume_total

\* A second with two sized trades at one price, which share one entry, next to
\* a second without trades, whose cell is null.
C9_Witness ==
    /\ Returned
    /\ \E r \in RowIndexes :
        /\ Cardinality(TicksOfRow(trades_df, r)) = 2
        /\ Cardinality(PricesOfRow(r)) = 1
        /\ \A k \in TicksOfRow(trades_df, r) : trades_df[k].size > 0
    /\ \E r \in RowIndexes : IsNA(seconds_df[r].volume_price_dict)

\* A code is carried by a cell when it stands between separators (or the ends
\* of the string) and holds no separator itself.
CarriesCode(cell, code) ==
    /\ ~IsNA(cell)
    /\ \E a \in 1..Len(Val(cell)) :
        LET b == a + Len(code) - 1
        IN  /\ b <= Len(Val(cell))
            /\ SubSeq(Val(cell), a, b) = code
            /\ a = 1 \/ Val(cell)[a - 1] = " "
            /\ b = Len(Val(cell)) \/ Val(cell)[b + 1] = " "

\* Positions of the input trades that share no code with the discard set.
RetainedPositions ==
    { k \in 1..Len(trades_df) :
        \A code \in trade_conditions : ~CarriesCode(trades_df[k].conditions, code) }

\* The n-th retained position, counting from 1 in input order.
NthRetained(n) ==
    CHOOSE k \in RetainedPositions :
        Cardinality({ j \in RetainedPositions : j < k }) = n - 1

\* ---- C10
\* C10: discard_trade_conditions returns exactly the trades that share no
\* condition code with the discard set (a trade without conditions included),
\* each with its fields unchanged and in their original relative order.
C10_Filter ==
    pc = "filtered" =>
        /\ Len(discard_df) = Cardinality(RetainedPositions)
        /\ \A n \in 1..Len(discard_df) : discard_df[n] = trades_df[NthRetained(n)]

\* Three trades of which the middle one is discarded, the first carries no
\* condition, and the last carries "137" while "37" is to be discarded.
C10_Witness ==
    /\ pc = "filtered"
    /\ Len(trades_df) = 3
    /\ IsNA(trades_df[1].conditions)
    /\ trades_df[3].conditions = Some(<<"1", "3", "7">>)
    /\ <<"3", "7">> \in trade_conditions
    /\ discard_df = <<trades_df[1], trades_df[3]>>

\* C11: main_lambda writes the output object only after get_seconds_df has
\* returned; the object is then the whole frame, every row populated.  A run
\* that failed (for one, on an empty quote stream) has written nothing.
C11_AllOrNothing ==
    /\ pc # "uploaded" => IsNA(s3_output)
    /\ pc = "uploaded" =>
          /\ Len(quotes_df) > 0
          /\ s3_output = Some(ToCsv(seconds_df))
          /\ Len(seconds_df) =
                CeilOfSeconds(quotes_df[Len(quotes_df)].sip_timestamp)
                - CeilOfSeconds(quotes_df[1].sip_timestamp) + 1
          /\ \A r \in RowIndexes :
                \A f \in QuoteFields \cup {"volume_total", "message_count_quote",
                                          "message_count_trade"} :
                    ~IsNA(seconds_df[r][f])

\* An empty quote stream with trades present: the run failed, nothing written.
C11_Witness ==
    /\ pc = "error"
    /\ Len(quotes_df) = 0
    /\ Len(trades_df) > 0
    /\ IsNA(s3_output)

\* ---- C12
\* The series as a function of the two input streams and of nothing else.

\* Positions of the ticks with ts / 10^9 <= t.
AsOf(stream, t) == { k \in 1..Len(stream) : stream[k].sip_timestamp <= t * SubSecond }

\* Positions of the ticks of second t; the first second takes all up to t.
Within(stream, t, first) ==
    { k \in AsOf(stream, t) : first \/ stream[k].sip_timestamp > (t - 1) * SubSecond }

MaxOf(S) == CHOOSE k \in S : \A j \in S : j <= k

MinOf(S) == CHOOSE k \in S : \A j \in S : k <= j

\* a / b in lowest terms, found by search.
Ratio(a, b) ==
    CHOOSE f \in (0..a) \X (1..b) :
        /\ f[1] * b = f[2] * a
        /\ \A g \in (0..a) \X (1..b) : g[1] * b = g[2] * a => f[2] <= g[2]

RECURSIVE SumOver(_, _)
SumOver(S, f) ==
    IF S = {} THEN 0
    ELSE LET k == CHOOSE x \in S : TRUE IN f[k] + SumOver(S \ {k}, f)

\* The dict cell of the trades at positions `mine`: one item per distinct
\* price, in the order in which the prices first occur.
DictOf(trades, mine) ==
    LET firsts == { MinOf({ j \in mine : trades[j].price = trades[k].price }) : k \in mine }
        nth(n) == CHOOSE k \in firsts : Cardinality({ j \in firsts : j < k }) = n - 1
        size == [k \in 1..Len(trades) |-> trades[k].size]
    IN  [n \in 1..Cardinality(firsts) |->
            <<ToString(trades[nth(n)].price),
              SumOver({ j \in mine : trades[j].price = trades[nth(n)].price }, size)>>]

SeriesRow(quotes, trades, first_second, r) ==
    LET t == first_second + r - 1
        q == quotes[MaxOf(AsOf(quotes, t))]
        mine == Within(trades, t, r = 1)
        size == [k \in 1..Len(trades) |-> trades[k].size]
        notional == [k \in 1..Len(trades) |-> trades[k].size * trades[k].price]
        volume == SumOver(mine, size)
    IN  [timestamp |-> t,
         bid_price |-> Some(q.bid_price),
         bid_size |-> Some(q.bid_size * 100),
         ask_price |-> Some(q.ask_price),
         ask_size |-> Some(q.ask_size * 100),
         last_trade_price |->
            IF AsOf(trades, t) = {} THEN NA
            ELSE Some(trades[MaxOf(AsOf(trades, t))].price),
         vwap |-> IF volume = 0 THEN NA
                  ELSE Some(Ratio(SumOver(mine, notional), volume)),
         volume_price_dict |-> IF mine = {} THEN NA ELSE Some(DictOf(trades, mine)),
         volume_total |-> Some(volume),
         volume_aggressive_buy |->
            Some(SumOver({ k \in mine : trades[k].price >= q.ask_price - Eps }, size)),
         volume_aggressive_sell |->
            Some(SumOver({ k \in mine : trades[k].price <= q.bid_price + Eps }, size)),
         message_count_quote |-> Some(Cardinality(Within(quotes, t, r = 1))),
         message_count_trade |-> Some(Cardinality(mine))]

SeriesOf(quotes, trades) ==
    LET first_second == CeilOfSeconds(quotes[1].sip_timestamp)
        last_second == CeilOfSeconds(quotes[Len(quotes)].sip_timestamp)
    IN  [r \in 1..(last_second - first_second + 1) |->
            SeriesRow(quotes, trades, first_second, r)]

\* C12: get_seconds_df is deterministic: the frame it returns is a function
\* of the quote and trade sequences alone, so two runs on the same sequences
\* return the same rows with the same field values; and no step of a run
\* modifies the inputs.
C12_Deterministic ==
    /\ [](Returned => seconds_df = SeriesOf(quotes_df, trades_df))
    /\ [][quotes_df' = quotes_df /\ trades_df' = trades_df]_vars

\* A returned frame of two rows at least, with a second whose dict holds two
\* prices and a second without trades.
C12_Witness ==
    /\ Returned
    /\ Len(seconds_df) >= 2
    /\ \E r \in RowIndexes :
        /\ ~IsNA(seconds_df[r].volume_price_dict)
        /\ Len(Val(seconds_df[r].volume_price_dict)) = 2
    /\ \E r \in RowIndexes : IsNA(seconds_df[r].volume_price_dict)


\* ========================================================== feature stages
\* Part 2: features_second.get_output_df and features_day.get_output_df, which
\* read the per-second series written by Part 1.
\*
\* A float64 cell is a fraction <<n, d>> in lowest terms, an Int64 cell an
\* integer; either may be NA.  A column is a sequence of cells, a frame a
\* function from column names to columns (features_day: to single cells).

\* ------------------------------------------------------ float64 arithmetic

Float(n) == <<n, 1>>

FAdd(x, y) == Div(x[1] * y[2] + y[1] * x[2], x[2] * y[2])

FMul(x, y) == Div(x[1] * y[1], x[2] * y[2])

FLeq(x, y) == x[1] * y[2] <= y[1] * x[2]

\* Mutant of FDivide: a zero denominator gives 0.0.
FDivide_ZeroFill(x, y) ==
    IF IsNA(x) \/ IsNA(y) THEN NA
    ELSE IF Val(y)[1] = 0 THEN Some(<<0, 1>>)
    ELSE Some(Div(Val(x)[1] * Val(y)[2], Val(x)[2] * Val(y)[1]))

\* x / y in numpy: nan when a side is nan, and 0.0 / 0.0 is nan as well.  The
\* numerators met here are never positive over a zero denominator.
FDivide(x, y) ==
    IF IsNA(x) \/ IsNA(y) THEN NA
    ELSE IF Val(y)[1] = 0 THEN NA
    ELSE Some(Div(Val(x)[1] * Val(y)[2], Val(x)[2] * Val(y)[1]))

\* x * y on two cells: nan when a side is nan.
FTimes(x, y) == IF IsNA(x) \/ IsNA(y) THEN NA ELSE Some(FMul(Val(x), Val(y)))

\* x - y on two cells with x >= y.
FMinus(x, y) ==
    IF IsNA(x) \/ IsNA(y) THEN NA
    ELSE Some(Div(Val(x)[1] * Val(y)[2] - Val(y)[1] * Val(x)[2], Val(x)[2] * Val(y)[2]))

\* An integer cell read as float64.
ToFloat(cell) == IF IsNA(cell) THEN NA ELSE Some(Float(Val(cell)))

\* .astype('Int64') of a float64 cell that holds a whole number.
AsInt64(cell) == IF IsNA(cell) THEN NA ELSE Some(Val(cell)[1] \div Val(cell)[2])

\* ------------------------------------------------------- time series input

\* What may happen in one second: no trade, one trade, two trades at two
\* prices, one trade of size zero.
SecondTrades ==
    { <<>>,
      <<[price |-> 2, size |-> 1]>>,
      <<[price |-> 3, size |-> 2], [price |-> 4, size |-> 1]>>,
      <<[price |-> 3, size |-> 0]>> }

Seconds == [quote : QuoteBook, trades : SecondTrades]

\* The trade loop of get_seconds_df over the trades of one second.
RECURSIVE TradeLoop(_, _)
TradeLoop(state, trades) ==
    IF trades = <<>> THEN state
    ELSE LET last == LastTrade(state.last_value, Head(trades))
         IN  TradeLoop([last_value |-> last,
                        total |-> Accumulate(state.total, last),
                        volume_price_dict |->
                            DictAdd(state.volume_price_dict,
                                    PriceKey(Val(last.trade_price)),
                                    Val(last.trade_size))],
                       Tail(trades))

\* The rows get_seconds_df writes for a run of seconds, each with one quote.
RECURSIVE SeriesRows(_, _, _)
SeriesRows(seconds, last, ts) ==
    IF seconds = <<>> THEN <<>>
    ELSE LET second == Head(seconds)
             state == TradeLoop(
                        [last_value |-> LastQuote(last, <<second.quote>>, 1),
                         total |-> [TotalInit EXCEPT !.message_count_quote = 1],
                         volume_price_dict |-> <<>>],
                        second.trades)
         IN  <<PopulateRow(EmptyRow(ts), state.last_value, state.total,
                           state.volume_price_dict)>>
             \o SeriesRows(Tail(seconds), state.last_value, ts + 1)

TimeSeriesInputs ==
    UNION { { SeriesRows(seconds, LastValueInit, SeriesStart)
              : seconds \in [1..n -> Seconds] }
            : n \in 1..MaxRows }

\* event['time_windows']: one window, or two.
TimeWindowLists == { <<w>> : w \in 1..MaxWindow } \cup { <<1, 2>> }

\* ------------------------------------------------------------------ pandas

\* frame[field] as a column.
Column(frame, field) == [n \in 1..Len(frame) |-> frame[n][field]]

FloatColumn(frame, field) == [n \in 1..Len(frame) |-> ToFloat(frame[n][field])]

\* A column of `len` null cells.
NullColumn(len) == [n \in 1..len |-> NA]

\* Mutant of RollingWindow: the window reaches one row further back.
RollingWindow_OneMore(col, w, n) == SubSeq(col, IF n - w < 1 THEN 1 ELSE n - w, n)

\* The cells a rolling window of w rows ending at row n covers.
RollingWindow(col, w, n) == SubSeq(col, IF n - w + 1 < 1 THEN 1 ELSE n - w + 1, n)

\* The observations of a window: its cells that are not nan.
Observations(cells) == SelectSeq(cells, LAMBDA c : ~IsNA(c))

RECURSIVE FSum(_)
FSum(obs) == IF obs = <<>> THEN Float(0) ELSE FAdd(Val(Head(obs)), FSum(Tail(obs)))

RECURSIVE FSumSquares(_)
FSumSquares(obs) ==
    IF obs = <<>> THEN Float(0)
    ELSE FAdd(FMul(Val(Head(obs)), Val(Head(obs))), FSumSquares(Tail(obs)))

\* np.dot(x, np.arange(1, len(x) + 1))
RECURSIVE FDot(_)
FDot(obs) ==
    IF obs = <<>> THEN Float(0)
    ELSE FAdd(FMul(Val(obs[Len(obs)]), Float(Len(obs))),
              FDot(SubSeq(obs, 1, Len(obs) - 1)))

StatSum(obs) == Some(FSum(obs))

\* Mutant of StatMax: the latest observation is taken for the greatest.
StatMax_Latest(obs) == obs[Len(obs)]

StatMax(obs) ==
    obs[CHOOSE k \in 1..Len(obs) : \A j \in 1..Len(obs) : FLeq(Val(obs[j]), Val(obs[k]))]

StatMin(obs) ==
    obs[CHOOSE k \in 1..Len(obs) : \A j \in 1..Len(obs) : FLeq(Val(obs[k]), Val(obs[j]))]

StatMean(obs) == FDivide(StatSum(obs), Some(Float(Len(obs))))

\* .std() has ddof = 1: nan on one observation.  The cell holds the variance,
\* the square of the standard deviation:
\* (n * sum(x^2) - sum(x)^2) / (n * (n - 1)).
StatStd(obs) ==
    LET n == Len(obs)
    IN  IF n < 2 THEN NA
        ELSE FDivide(FMinus(Some(FMul(Float(n), FSumSquares(obs))),
                            Some(FMul(FSum(obs), FSum(obs)))),
                     Some(Float(n * (n - 1))))

\* The lambda of line 164: np.dot(x, arange(1, y + 1)) / arange(1, y + 1).sum()
StatWeighted(obs) ==
    FDivide(Some(FDot(obs)), Some(Float((Len(obs) * (Len(obs) + 1)) \div 2)))

\* The k-th smallest observation (ties counted).
KthSmallest(obs, k) ==
    obs[CHOOSE a \in 1..Len(obs) :
          /\ Cardinality({ j \in 1..Len(obs) :
                FLeq(Val(obs[j]), Val(obs[a])) /\ ~FLeq(Val(obs[a]), Val(obs[j])) }) < k
          /\ Cardinality({ j \in 1..Len(obs) : FLeq(Val(obs[j]), Val(obs[a])) }) >= k]

\* .median(): the middle observation, or the mean of the two middle ones.
StatMedian(obs) ==
    LET n == Len(obs)
    IN  IF n % 2 = 1 THEN KthSmallest(obs, (n + 1) \div 2)
        ELSE FDivide(Some(FAdd(Val(KthSmallest(obs, n \div 2)),
                               Val(KthSmallest(obs, n \div 2 + 1)))),
                     Some(Float(2)))

\* The statistic a rolling or expanding window is asked for, by method name;
\* "apply" is the weighting lambda of line 164.
Stat(stat, obs) ==
    CASE stat = "sum" -> StatSum(obs)
      [] stat = "max" -> StatMax(obs)
      [] stat = "min" -> StatMin(obs)
      [] stat = "mean" -> StatMean(obs)
      [] stat = "std" -> StatStd(obs)
      [] stat = "median" -> StatMedian(obs)
      [] stat = "apply" -> StatWeighted(obs)

\* Mutant of Rolling: min_periods is taken as 1 whatever was passed.
Rolling_MinPeriodsOne(col, w, min_periods, stat) ==
    [n \in 1..Len(col) |->
        LET obs == Observations(RollingWindow(col, w, n))
        IN  IF Len(obs) < 1 THEN NA ELSE Stat(stat, obs)]

\* col.rolling(w, min_periods).stat(): nan where the window holds fewer than
\* min_periods observations, else the statistic of the observations.
Rolling(col, w, min_periods, stat) ==
    [n \in 1..Len(col) |->
        LET obs == Observations(RollingWindow(col, w, n))
        IN  IF Len(obs) < min_periods THEN NA ELSE Stat(stat, obs)]

\* Mutant of Expanding: only the last two rows are looked at.
Expanding_LastTwo(col, stat) ==
    [n \in 1..Len(col) |->
        LET obs == Observations(SubSeq(col, IF n < 2 THEN 1 ELSE n - 1, n))
        IN  IF Len(obs) < 1 THEN NA ELSE Stat(stat, obs)]

\* col.expanding().stat(): min_periods is 1.
Expanding(col, stat) ==
    [n \in 1..Len(col) |->
        LET obs == Observations(SubSeq(col, 1, n))
        IN  IF Len(obs) < 1 THEN NA ELSE Stat(stat, obs)]

\* A column with every cell cast by .astype('Int64').
ColumnAsInt64(col) == [n \in 1..Len(col) |-> AsInt64(col[n])]

\* Two columns divided cell by cell.
ColumnDivide(a, b) == [n \in 1..Len(a) |-> FDivide(a[n], b[n])]

ColumnTimes(a, b) == [n \in 1..Len(a) |-> FTimes(a[n], b[n])]

ColumnMinus(a, b) == [n \in 1..Len(a) |-> FMinus(a[n], b[n])]

\* 'name_' + str(time_window)
WindowColumn(name, time_window) == name \o "_" \o ToString(time_window)

\* frame[name] = column, for every name in the domain of `columns`.
Assign(frame, columns) ==
    [c \in DOMAIN frame \cup DOMAIN columns |->
        IF c \in DOMAIN columns THEN columns[c] ELSE frame[c]]

\* pd.Series(time_series_df['timestamp'], dtype='float64')
TimestampColumn(frame) == [n \in 1..Len(frame) |-> Some(Float(frame[n].timestamp))]

\* ------------------------------------------- features_second.get_output_df

\* np.finfo(np.float64).min and .max, in price units: below and above every
\* price.
FinfoMin == -1
FinfoMax == 1000

DayNames ==
    {"high_price_day", "low_price_day", "volatility_day", "vwap_day",
     "volume_total_day", "volume_aggressive_buy_day",
     "volume_aggressive_sell_day", "message_count_quote_day",
     "message_count_trade_day"}

WindowNames ==
    {"high_price", "low_price", "volatility", "moving_average",
     "moving_average_weighted", "bid_size_median", "ask_size_median",
     "bid_ask_spread_median", "vwap", "volume_total", "volume_aggressive_buy",
     "volume_aggressive_sell", "message_count_quote", "message_count_trade"}

TempNames == {"high_price", "low_price", "bid_ask_spread", "volume_price_product"}

\* Lines 34-102: output_df and temp_df, every cell but timestamp null.
InitOutputDf ==
    /\ pc = "fs_start"
    /\ output_df' =
         [c \in {"timestamp"} \cup DayNames
                \cup { WindowColumn(name, time_windows[k])
                       : name \in WindowNames, k \in 1..Len(time_windows) } |->
            IF c = "timestamp" THEN TimestampColumn(time_series_df)
            ELSE NullColumn(Len(time_series_df))]
    /\ temp_df' =
         [c \in {"timestamp"} \cup TempNames |->
            IF c = "timestamp" THEN TimestampColumn(time_series_df)
            ELSE NullColumn(Len(time_series_df))]
    /\ i' = 0
    /\ pc' = "fs_temp"
    /\ UNCHANGED <<outside_features, time_series_df, time_windows, open_timestamp,
                   close_timestamp, window_pos, open_slice_row, close_slice_row>>

\* json.loads(cell).keys(): the price strings of a dict cell, in order.
JsonKeys(cell) == [k \in 1..Len(Val(cell)) |-> Val(cell)[k][1]]

\* np.float64(price) of a price string.
KeyPrice(key) == CHOOSE price \in { t.price : t \in TradeBook } : PriceKey(price) = key

\* Lines 106-109: np.max over the keys, from the start value.
RECURSIVE HighPriceTemp(_, _)
HighPriceTemp(high_price_temp, keys) ==
    IF keys = <<>> THEN high_price_temp
    ELSE HighPriceTemp(IF KeyPrice(Head(keys)) > high_price_temp
                       THEN KeyPrice(Head(keys)) ELSE high_price_temp,
                       Tail(keys))

RECURSIVE LowPriceTemp(_, _)
LowPriceTemp(low_price_temp, keys) ==
    IF keys = <<>> THEN low_price_temp
    ELSE LowPriceTemp(IF KeyPrice(Head(keys)) < low_price_temp
                      THEN KeyPrice(Head(keys)) ELSE low_price_temp,
                      Tail(keys))

\* Lines 103-114: the high and low price of row i.
TempRow ==
    /\ pc = "fs_temp"
    /\ i < Len(time_series_df)
    /\ LET cell == time_series_df[i + 1].volume_price_dict
           keys == IF IsNA(cell) THEN <<>> ELSE JsonKeys(cell)
           high_price_temp == HighPriceTemp(FinfoMin, keys)
           low_price_temp == LowPriceTemp(FinfoMax, keys)
       IN  temp_df' =
             IF high_price_temp # FinfoMin
             THEN [temp_df EXCEPT
                     !["high_price"][i + 1] = Some(Float(high_price_temp)),
                     !["low_price"][i + 1] = Some(Float(low_price_temp))]
             ELSE temp_df
    /\ i' = i + 1
    /\ UNCHANGED <<outside_features, time_series_df, time_windows, open_timestamp,
                   close_timestamp, output_df, window_pos, open_slice_row,
                   close_slice_row, pc>>

\* Lines 116-119: the two vectorised helper columns.
TempColumns ==
    /\ pc = "fs_temp"
    /\ i >= Len(time_series_df)
    /\ temp_df' =
         Assign(temp_df,
            "bid_ask_spread" :>
                ColumnMinus(FloatColumn(time_series_df, "ask_price"),
                            FloatColumn(time_series_df, "bid_price"))
            @@ "volume_price_product" :>
                ColumnTimes(FloatColumn(time_series_df, "volume_total"),
                            Column(time_series_df, "vwap")))
    /\ pc' = "fs_day"
    /\ UNCHANGED <<outside_features, time_series_df, time_windows, open_timestamp,
                   close_timestamp, output_df, window_pos, open_slice_row,
                   close_slice_row, i>>

\* Lines 121-141: the columns cumulative for the whole day.
DayColumns ==
    /\ pc = "fs_day"
    /\ output_df' =
         Assign(output_df,
            "high_price_day" :> Expanding(temp_df["high_price"], "max")
            @@ "low_price_day" :> Expanding(temp_df["low_price"], "min")
            @@ "volatility_day" :>
                Expanding(FloatColumn(time_series_df, "last_trade_price"), "std")
            @@ "vwap_day" :>
                ColumnDivide(
                    Expanding(ColumnTimes(Column(time_series_df, "vwap"),
                                          FloatColumn(time_series_df, "volume_total")),
                              "sum"),
                    Expanding(FloatColumn(time_series_df, "volume_total"), "sum"))
            @@ "volume_total_day" :>
                Expanding(FloatColumn(time_series_df, "volume_total"), "sum")
            @@ "volume_aggressive_buy_day" :>
                Expanding(FloatColumn(time_series_df, "volume_aggressive_buy"), "sum")
            @@ "volume_aggressive_sell_day" :>
                Expanding(FloatColumn(time_series_df, "volume_aggressive_sell"), "sum")
            @@ "message_count_quote_day" :>
                Expanding(FloatColumn(time_series_df, "message_count_quote"), "sum")
            @@ "message_count_trade_day" :>
                Expanding(FloatColumn(time_series_df, "message_count_trade"), "sum"))
    /\ window_pos' = 0
    /\ pc' = "fs_windows"
    /\ UNCHANGED <<outside_features, time_series_df, time_windows, open_timestamp,
                   close_timestamp, temp_df, open_slice_row, close_slice_row, i>>

\* Lines 148-199: the columns of one time window.
WindowColumns(series, temp, time_window) ==
    LET last_trade_price == FloatColumn(series, "last_trade_price")
        RollingSum(field) ==
            ColumnAsInt64(Rolling(FloatColumn(series, field), time_window, 1, "sum"))
    IN  WindowColumn("high_price", time_window) :>
            Rolling(temp["high_price"], time_window, 1, "max")
        @@ WindowColumn("low_price", time_window) :>
            Rolling(temp["low_price"], time_window, 1, "min")
        @@ WindowColumn("volatility", time_window) :>
            Rolling(last_trade_price, time_window, time_window, "std")
        @@ WindowColumn("moving_average", time_window) :>
            Rolling(last_trade_price, time_window, time_window, "mean")
        @@ WindowColumn("moving_average_weighted", time_window) :>
            Rolling(last_trade_price, time_window, time_window, "apply")
        @@ WindowColumn("bid_size_median", time_window) :>
            ColumnAsInt64(Rolling(FloatColumn(series, "bid_size"), time_window, 1,
                                  "median"))
        @@ WindowColumn("ask_size_median", time_window) :>
            ColumnAsInt64(Rolling(FloatColumn(series, "ask_size"), time_window, 1,
                                  "median"))
        @@ WindowColumn("bid_ask_spread_median", time_window) :>
            Rolling(temp["bid_ask_spread"], time_window, 1, "median")
        @@ WindowColumn("vwap", time_window) :>
            ColumnDivide(
                Rolling(temp["volume_price_product"], time_window, 1, "sum"),
                Rolling(FloatColumn(series, "volume_total"), time_window, 1, "sum"))
        @@ WindowColumn("volume_total", time_window) :> RollingSum("volume_total")
        @@ WindowColumn("volume_aggressive_buy", time_window) :>
            RollingSum("volume_aggressive_buy")
        @@ WindowColumn("volume_aggressive_sell", time_window) :>
            RollingSum("volume_aggressive_sell")
        @@ WindowColumn("message_count_quote", time_window) :>
            RollingSum("message_count_quote")
        @@ WindowColumn("message_count_trade", time_window) :>
            RollingSum("message_count_trade")

\* Lines 145-201: one iteration of the loop over time_windows.
TimeWindow ==
    /\ pc = "fs_windows"
    /\ window_pos < Len(time_windows)
    /\ output_df' =
         Assign(output_df,
                WindowColumns(time_series_df, temp_df, time_windows[window_pos + 1]))
    /\ window_pos' = window_pos + 1
    /\ UNCHANGED <<outside_features, time_series_df, time_windows, open_timestamp,
                   close_timestamp, temp_df, open_slice_row, close_slice_row, i, pc>>

\* Line 203: the frame is returned.
ReturnOutputDf ==
    /\ pc = "fs_windows"
    /\ window_pos >= Len(time_windows)
    /\ pc' = "fs_done"
    /\ UNCHANGED <<outside_features, features_state, i>>

\* ---------------------------------------------- features_day.get_output_df

\* series.iloc[start:stop] on 0-based positions: a negative start counts from
\* the end, and both ends are cut to the series (stop is never negative here).
Iloc(col, start, stop) ==
    LET len == Len(col)
        from == IF start >= 0 THEN (IF start > len THEN len ELSE start)
                ELSE (IF start + len < 0 THEN 0 ELSE start + len)
        to == IF stop > len THEN len ELSE stop
    IN  SubSeq(col, from + 1, to)

\* Series.sum(): nan cells are skipped, and the sum of none is 0.0.
SeriesSum(col) == Some(FSum(Observations(col)))

\* Series.sum() of an int64 column.
IntSum(col) == AsInt64(SeriesSum([n \in 1..Len(col) |-> ToFloat(col[n])]))

\* label is one of the RangeIndex labels 0..len-1: frame.at[label, ...] raises
\* KeyError otherwise.
HasLabel(frame, label) == 0 <= label /\ label < Len(frame)

\* frame.at[label, field]
At(frame, label, field) == frame[label + 1][field]

\* The 0-based labels of the rows whose timestamp equals ts, ascending.
RowsAt(frame, ts) == { k \in 0..(Len(frame) - 1) : frame[k + 1].timestamp = ts }

\* Mutant of ClampTimestamps: the configured times are passed on as they are.
ClampTimestamps_Configured ==
    /\ pc = "fd_start"
    /\ pc' = "fd_day"
    /\ UNCHANGED <<outside_features, time_series_df, time_windows, temp_df,
                   output_df, window_pos, open_slice_row, close_slice_row, i,
                   open_timestamp, close_timestamp>>

\* main_lambda lines 173-184: the configured open and close are clamped to the
\* first and the last row of the series.
ClampTimestamps ==
    /\ pc = "fd_start"
    /\ open_timestamp' =
         IF open_timestamp > At(time_series_df, 0, "timestamp")
         THEN open_timestamp ELSE At(time_series_df, 0, "timestamp")
    /\ close_timestamp' =
         IF close_timestamp < At(time_series_df, Len(time_series_df) - 1, "timestamp")
         THEN close_timestamp
         ELSE At(time_series_df, Len(time_series_df) - 1, "timestamp")
    /\ pc' = "fd_day"
    /\ UNCHANGED <<outside_features, time_series_df, time_windows, temp_df,
                   output_df, window_pos, open_slice_row, close_slice_row, i>>

\* The keys of every non-null dict cell, row after row.
RECURSIVE AllKeys(_)
AllKeys(cells) ==
    IF cells = <<>> THEN <<>>
    ELSE (IF IsNA(Head(cells)) THEN <<>> ELSE JsonKeys(Head(cells)))
         \o AllKeys(Tail(cells))

\* get_output_df lines 107-129: the row of day-level values, partial_df.
PartialDf ==
    /\ pc = "fd_day"
    /\ LET keys == AllKeys(Column(time_series_df, "volume_price_dict"))
           volume_total_day == IntSum(Column(time_series_df, "volume_total"))
           vwap_day ==
             FDivide(SeriesSum(ColumnTimes(Column(time_series_df, "vwap"),
                                           FloatColumn(time_series_df, "volume_total"))),
                     ToFloat(volume_total_day))
       IN  temp_df' =
             "open_timestamp" :> Some(Float(open_timestamp))
             @@ "close_timestamp" :> Some(Float(close_timestamp))
             @@ "high_price" :> Some(Float(HighPriceTemp(FinfoMin, keys)))
             @@ "low_price" :> Some(Float(LowPriceTemp(FinfoMax, keys)))
             @@ "vwap_day" :> vwap_day
             @@ "volume_total_day" :> volume_total_day
    /\ pc' = "fd_anchors"
    /\ UNCHANGED <<outside_features, time_series_df, time_windows, open_timestamp,
                   close_timestamp, output_df, window_pos, open_slice_row,
                   close_slice_row, i>>

\* Mutant of SliceRows: a missing anchor falls back to the end of the series.
SliceRows_Fallback(frame, open, close) ==
    [found |-> TRUE,
     open_slice_row |->
        IF RowsAt(frame, open) = {} THEN 0 ELSE MinOf(RowsAt(frame, open)),
     close_slice_row |->
        IF RowsAt(frame, close) = {} THEN Len(frame)
        ELSE MinOf(RowsAt(frame, close)) + 1]

\* get_time_window_df lines 34-37: .index[0] of the rows whose timestamp
\* equals the anchor; it raises IndexError when there is none.
SliceRows(frame, open, close) ==
    IF RowsAt(frame, open) = {} \/ RowsAt(frame, close) = {}
    THEN [found |-> FALSE, open_slice_row |-> 0, close_slice_row |-> 0]
    ELSE [found |-> TRUE,
          open_slice_row |-> MinOf(RowsAt(frame, open)),
          close_slice_row |-> MinOf(RowsAt(frame, close)) + 1]

\* get_time_window_df lines 34-39.
FindSliceRows ==
    /\ pc = "fd_anchors"
    /\ LET rows == SliceRows(time_series_df, open_timestamp, close_timestamp)
       IN  /\ open_slice_row' = rows.open_slice_row
           /\ close_slice_row' = rows.close_slice_row
           /\ pc' = IF rows.found THEN "fd_windows" ELSE "fd_error"
    /\ window_pos' = 0
    /\ UNCHANGED <<outside_features, time_series_df, time_windows, open_timestamp,
                   close_timestamp, temp_df, output_df, i>>

SnapshotFields == {"bid_price", "bid_size", "ask_price", "ask_size", "last_trade_price"}

\* Mutant of OpenSnapshotRow: the row W seconds after the open row.
OpenSnapshotRow_After(open_row, window) == open_row + window

\* Lines 55-63: the label of the row the *_open_W snapshot is read from.
OpenSnapshotRow(open_row, window) == open_row + window - 1

\* Lines 69-77: the label of the row the *_close_W snapshot is read from.
CloseSnapshotRow(close_row, window) == close_row - window

\* Mutant of WindowVwap: the plain mean of the rows' vwap.
WindowVwap_Mean(vwap, volume_total) ==
    IF Observations(vwap) = <<>> THEN NA ELSE StatMean(Observations(vwap))

\* Lines 43-45: (vwap slice * volume_total slice).sum() / volume_total sum.
WindowVwap(vwap, volume_total) ==
    FDivide(SeriesSum(ColumnTimes(vwap, [n \in 1..Len(volume_total) |->
                                            ToFloat(volume_total[n])])),
            ToFloat(IntSum(volume_total)))

\* Lines 41-82: the cells one time window adds to the row.
TimeWindowCells(series, open_row, close_row, window) ==
    LET volume_total == Column(series, "volume_total")
        vwap == Column(series, "vwap")
        open_volume == Iloc(volume_total, open_row, open_row + window)
        close_volume == Iloc(volume_total, close_row - window, close_row)
        suffix == "_" \o ToString(window)
        open_cells ==
            [c \in { f \o "_open" \o suffix : f \in SnapshotFields } |->
                At(series, OpenSnapshotRow(open_row, window),
                   CHOOSE f \in SnapshotFields : c = f \o "_open" \o suffix)]
        close_cells ==
            [c \in { f \o "_close" \o suffix : f \in SnapshotFields } |->
                At(series, CloseSnapshotRow(close_row, window),
                   CHOOSE f \in SnapshotFields : c = f \o "_close" \o suffix)]
    IN  open_cells @@ close_cells
        @@ ("vwap_open" \o suffix) :>
              WindowVwap(Iloc(vwap, open_row, open_row + window), open_volume)
        @@ ("volume_total_open" \o suffix) :> IntSum(open_volume)
        @@ ("vwap_close" \o suffix) :>
              WindowVwap(Iloc(vwap, close_row - window, close_row), close_volume)
        @@ ("volume_total_close" \o suffix) :> IntSum(close_volume)

\* get_time_window_df lines 40-82: one iteration of the loop over
\* time_windows; .at raises KeyError on a label outside the series.
DayTimeWindow ==
    /\ pc = "fd_windows"
    /\ window_pos < Len(time_windows)
    /\ LET window == time_windows[window_pos + 1]
       IN  IF /\ HasLabel(time_series_df, OpenSnapshotRow(open_slice_row, window))
              /\ HasLabel(time_series_df, CloseSnapshotRow(close_slice_row, window))
           THEN /\ temp_df' = Assign(temp_df,
                                TimeWindowCells(time_series_df, open_slice_row,
                                                close_slice_row, window))
                /\ window_pos' = window_pos + 1
                /\ pc' = pc
           ELSE /\ pc' = "fd_error"
                /\ UNCHANGED <<temp_df, window_pos>>
    /\ UNCHANGED <<outside_features, time_series_df, time_windows, open_timestamp,
                   close_timestamp, output_df, open_slice_row, close_slice_row, i>>

\* Lines 84 and 130-132: the one-row frame is returned.
ReturnDayDf ==
    /\ pc = "fd_windows"
    /\ window_pos >= Len(time_windows)
    /\ output_df' = temp_df
    /\ pc' = "fd_done"
    /\ UNCHANGED <<outside_features, time_series_df, time_windows, open_timestamp,
                   close_timestamp, temp_df, window_pos, open_slice_row,
                   close_slice_row, i>>

\* ------------------------------------------------------- the feature stages

\* reup_utils.get_timestamp(date_str, event['open_time'], ...): the configured
\* open, from before the series to after it.
OpenTimes == (SeriesStart - 2)..(SeriesStart + MaxRows)

\* One invocation of features_second or of features_day on a stored series.
InitFeatures ==
    /\ time_series_df \in TimeSeriesInputs
    /\ time_windows \in TimeWindowLists
    /\ \/ /\ pc = "fs_start"
          /\ open_timestamp = 0
          /\ close_timestamp = 0
       \/ /\ pc = "fd_start"
          /\ open_timestamp \in OpenTimes
          /\ close_timestamp = open_timestamp + SessionLength
    /\ temp_df = NoFrame
    /\ output_df = NoFrame
    /\ window_pos = 0
    /\ open_slice_row = 0
    /\ close_slice_row = 0
    /\ OtherStagesIdle
    /\ quotes_df = <<>>
    /\ trades_df = <<>>
    /\ seconds_df = <<>>
    /\ i = 0
    /\ current_timestamp = 0
    /\ quotes_row = 0
    /\ trades_row = 0
    /\ last_value = LastValueInit
    /\ volume_price_dict = <<>>
    /\ total = TotalInit
    /\ trade_conditions = {}
    /\ discard_df = <<>>
    /\ s3_output = NA

NextFeatures ==
    \/ InitOutputDf
    \/ TempRow
    \/ TempColumns
    \/ DayColumns
    \/ TimeWindow
    \/ ReturnOutputDf
    \/ ClampTimestamps
    \/ PartialDf
    \/ FindSliceRows
    \/ DayTimeWindow
    \/ ReturnDayDf

SpecFeatures == InitFeatures /\ [][NextFeatures]_vars

\* ================================================ properties, feature stages

\* features_second.get_output_df has returned its frame.
FsReturned == pc = "fs_done"

SeriesIndexes == 1..Len(time_series_df)

\* The window lengths the frame has columns for.
Windows == { time_windows[k] : k \in 1..Len(time_windows) }

\* The sum of an integer column of the series over the rows in `rows`.
SumField(field, rows) ==
    SumOver(rows, [k \in SeriesIndexes |-> Val(time_series_df[k][field])])

\* The money traded in row k, vwap * volume_total: zero without volume.
Notional(k) ==
    LET row == time_series_df[k]
    IN  IF IsNA(row.vwap) THEN 0
        ELSE (Val(row.volume_total) * Val(row.vwap)[1]) \div Val(row.vwap)[2]

SumNotional(rows) == SumOver(rows, [k \in SeriesIndexes |-> Notional(k)])

\* The prices that are keys of the dict cells of the rows in `rows`.
PricesIn(rows) ==
    { price \in { t.price : t \in TradeBook } :
        \E k \in rows :
            /\ ~IsNA(time_series_df[k].volume_price_dict)
            /\ \E n \in 1..Len(Val(time_series_df[k].volume_price_dict)) :
                 Val(time_series_df[k].volume_price_dict)[n][1] = ToString(price) }

\* A float64 cell equals the quotient a / b of two integers, b > 0.
IsQuotient(cell, a, b) == ~IsNA(cell) /\ Val(cell)[1] * b = Val(cell)[2] * a

\* The trailing window of w rows at row r, cut at the start of the series.
Trailing(r, w) == { k \in SeriesIndexes : r - w < k /\ k <= r }

\* ---- C13
CumulativeFields ==
    {"volume_total", "volume_aggressive_buy", "volume_aggressive_sell",
     "message_count_quote", "message_count_trade"}

\* C13: in the frame features_second returns, each of volume_total_day,
\* volume_aggressive_buy_day, volume_aggressive_sell_day,
\* message_count_quote_day and message_count_trade_day at row i is the sum of
\* the per-second field over rows 0..i, and so never decreases down the rows.
C13_PrefixSums ==
    FsReturned =>
        \A f \in CumulativeFields : \A r \in SeriesIndexes :
            LET col == output_df[f \o "_day"]
            IN  /\ IsQuotient(col[r], SumField(f, 1..r), 1)
                /\ r > 1 => FLeq(Val(col[r - 1]), Val(col[r]))

\* Three rows with volumes 1, 3 and 0: the day volume runs 1, 4, 4.
C13_Witness ==
    /\ FsReturned
    /\ Len(time_series_df) = 3
    /\ output_df["volume_total_day"] =
          <<Some(Float(1)), Some(Float(4)), Some(Float(4))>>
    /\ output_df["message_count_trade_day"][3] = Some(Float(3))

\* ---- C14
\* C14: high_price_day at row i is the greatest price key over the
\* volume_price_dict cells of rows 0..i and low_price_day the least, both null
\* until the first row with a trade; down the rows high_price_day never
\* decreases, low_price_day never increases, and low_price_day <= high_price_day
\* wherever both are set.
C14_HighLowDay ==
    FsReturned =>
        \A r \in SeriesIndexes :
            LET high == output_df["high_price_day"]
                low == output_df["low_price_day"]
                prices == PricesIn(1..r)
            IN  /\ prices = {} => IsNA(high[r]) /\ IsNA(low[r])
                /\ prices # {} =>
                     /\ high[r] = Some(Float(MaxOf(prices)))
                     /\ low[r] = Some(Float(MinOf(prices)))
                     /\ FLeq(Val(low[r]), Val(high[r]))
                /\ (r > 1 /\ ~IsNA(high[r - 1])) =>
                     /\ ~IsNA(high[r]) /\ FLeq(Val(high[r - 1]), Val(high[r]))
                     /\ ~IsNA(low[r]) /\ FLeq(Val(low[r]), Val(low[r - 1]))

\* No trade in the first row, then a row trading at 3 and 4, then one trading
\* at 2, which lowers the day's low and leaves its high.
C14_Witness ==
    /\ FsReturned
    /\ Len(time_series_df) = 3
    /\ IsNA(output_df["high_price_day"][1])
    /\ IsNA(output_df["low_price_day"][1])
    /\ output_df["high_price_day"][2] = Some(Float(4))
    /\ output_df["low_price_day"][2] = Some(Float(3))
    /\ output_df["high_price_day"][3] = Some(Float(4))
    /\ output_df["low_price_day"][3] = Some(Float(2))

\* ---- C15
\* C15: for every window W, vwap_W at row i is the sum of
\* volume_total * vwap over rows max(0, i - W + 1)..i divided by the sum of
\* volume_total over the same rows, whenever those rows hold some volume.
C15_WindowVwap ==
    FsReturned =>
        \A w \in Windows : \A r \in SeriesIndexes :
            LET rows == Trailing(r, w)
            IN  SumField("volume_total", rows) > 0 =>
                    IsQuotient(output_df[WindowColumn("vwap", w)][r],
                               SumNotional(rows), SumField("volume_total", rows))

\* Window 2 over three rows of volumes 1 (at 2), 3 (at 10/3) and 0: vwap_2 is
\* 2, then 12/4, then 10/3.
C15_Witness ==
    /\ FsReturned
    /\ time_windows = <<2>>
    /\ Len(time_series_df) = 3
    /\ output_df["vwap_2"] = <<Some(<<2, 1>>), Some(<<3, 1>>), Some(<<10, 3>>)>>

\* ---- C16
\* The value a row contributes to a median.
MedianValue(field, k) ==
    IF field = "bid_ask_spread"
    THEN Val(time_series_df[k].ask_price) - Val(time_series_df[k].bid_price)
    ELSE Val(time_series_df[k][field])

\* The values of the rows in `rows`, in ascending order.
Ascending(field, rows) ==
    LET values == { MedianValue(field, k) : k \in rows }
    IN  CHOOSE s \in [1..Cardinality(rows) -> values] :
            /\ \A n \in 1..(Cardinality(rows) - 1) : s[n] <= s[n + 1]
            /\ \A v \in values :
                 Cardinality({ n \in 1..Cardinality(rows) : s[n] = v })
                 = Cardinality({ k \in rows : MedianValue(field, k) = v })

\* Twice the median of the rows' values: the two middle values added up.
TwiceMedian(field, rows) ==
    LET s == Ascending(field, rows)
        n == Cardinality(rows)
    IN  s[(n + 1) \div 2] + s[n \div 2 + 1]

LastTradePrice(k) == Val(time_series_df[k].last_trade_price)

\* The three statistics of last_trade_price over the w rows ending at row r,
\* all of them holding a price.
ShapeOver(w, r) ==
    LET rows == (r - w + 1)..r
        total_price == SumOver(rows, [k \in SeriesIndexes |-> LastTradePrice(k)])
        weighted == SumOver(rows, [k \in SeriesIndexes |->
                                     (k - (r - w)) * LastTradePrice(k)])
        squares == SumOver(rows, [k \in SeriesIndexes |->
                        (w * LastTradePrice(k) - total_price)
                        * (w * LastTradePrice(k) - total_price)])
    IN  /\ IsQuotient(output_df[WindowColumn("moving_average", w)][r], total_price, w)
        /\ IsQuotient(output_df[WindowColumn("moving_average_weighted", w)][r],
                      weighted, (w * (w + 1)) \div 2)
        /\ IF w = 1 THEN IsNA(output_df[WindowColumn("volatility", w)][r])
           ELSE IsQuotient(output_df[WindowColumn("volatility", w)][r],
                           squares, w * w * (w - 1))

ShapeNull(w, r) ==
    /\ IsNA(output_df[WindowColumn("volatility", w)][r])
    /\ IsNA(output_df[WindowColumn("moving_average", w)][r])
    /\ IsNA(output_df[WindowColumn("moving_average_weighted", w)][r])

\* The window features that need no full window, computed over `rows`.
CountedOver(w, r, rows) ==
    /\ \A f \in CumulativeFields :
         output_df[WindowColumn(f, w)][r] = Some(SumField(f, rows))
    /\ \A f \in {"bid_size", "ask_size"} :
         /\ ~IsNA(output_df[WindowColumn(f \o "_median", w)][r])
         /\ 2 * Val(output_df[WindowColumn(f \o "_median", w)][r]) = TwiceMedian(f, rows)
    /\ IsQuotient(output_df[WindowColumn("bid_ask_spread_median", w)][r],
                  TwiceMedian("bid_ask_spread", rows), 2)
    /\ IF SumField("volume_total", rows) > 0
       THEN IsQuotient(output_df[WindowColumn("vwap", w)][r],
                       SumNotional(rows), SumField("volume_total", rows))
       ELSE IsNA(output_df[WindowColumn("vwap", w)][r])
    /\ IF PricesIn(rows) = {}
       THEN /\ IsNA(output_df[WindowColumn("high_price", w)][r])
            /\ IsNA(output_df[WindowColumn("low_price", w)][r])
       ELSE /\ output_df[WindowColumn("high_price", w)][r] = Some(Float(MaxOf(PricesIn(rows))))
            /\ output_df[WindowColumn("low_price", w)][r] = Some(Float(MinOf(PricesIn(rows))))

\* C16: for every window W and row i (rows counted from 0): when i < W - 1,
\* volatility_W, moving_average_W and moving_average_weighted_W are null while
\* the sums, the medians, vwap_W and high/low_price_W are computed over rows
\* 0..i; when i >= W - 1 every feature is computed over exactly the W rows
\* i - W + 1..i (the three statistics of last_trade_price being null when one
\* of those rows has no trade price yet, and volatility_1 always).
C16_Windows ==
    FsReturned =>
        \A w \in Windows : \A r \in SeriesIndexes :
            IF r < w
            THEN /\ ShapeNull(w, r)
                 /\ CountedOver(w, r, 1..r)
            ELSE /\ CountedOver(w, r, (r - w + 1)..r)
                 /\ IF \E k \in (r - w + 1)..r : IsNA(time_series_df[k].last_trade_price)
                    THEN ShapeNull(w, r)
                    ELSE ShapeOver(w, r)

\* Window 2 over three rows that trade last at 2, 4 and 2: no volatility in
\* row 0, then the variance 2 twice; the weighted average of (4, 2) is 8/3; and
\* the last row's window volume, 4, is not the day's, 5.
C16_Witness ==
    /\ FsReturned
    /\ time_windows = <<2>>
    /\ Len(time_series_df) = 3
    /\ output_df["volatility_2"] = <<NA, Some(<<2, 1>>), Some(<<2, 1>>)>>
    /\ IsNA(output_df["moving_average_2"][1])
    /\ output_df["moving_average_weighted_2"][3] = Some(<<8, 3>>)
    /\ output_df["volume_total_2"][3] = Some(4)
    /\ output_df["volume_total_day"][3] = Some(Float(5))
    /\ output_df["bid_size_median_2"][3] = Some(150)

\* ---- C17
\* features_day.get_output_df has returned its one-row frame.
FdReturned == pc = "fd_done"

\* The rows of the W seconds that start at the open timestamp, and of the W
\* seconds that end at the close timestamp.
OpenRows(w) ==
    { k \in SeriesIndexes :
        /\ open_timestamp <= time_series_df[k].timestamp
        /\ time_series_df[k].timestamp <= open_timestamp + w - 1 }

CloseRows(w) ==
    { k \in SeriesIndexes :
        /\ close_timestamp - w + 1 <= time_series_df[k].timestamp
        /\ time_series_df[k].timestamp <= close_timestamp }

\* The series has a row at the open and at the close timestamp, and W rows
\* from the open on and W rows up to the close, for every window W.
WindowsFit ==
    /\ \E k \in SeriesIndexes : time_series_df[k].timestamp = open_timestamp
    /\ \E k \in SeriesIndexes : time_series_df[k].timestamp = close_timestamp
    /\ \A w \in Windows : Cardinality(OpenRows(w)) = w /\ Cardinality(CloseRows(w)) = w

\* C17: a window without volume yields a null vwap, never zero and never an
\* error.  In features_second: vwap_W and vwap_day are null at every row whose
\* window, or whose rows so far, hold no volume.  In features_day: vwap_day,
\* vwap_open_W and vwap_close_W are null when the day, the open window or the
\* close window holds no volume; the frame is returned all the same, and a
\* call fails only for a missing anchor or a window that does not fit.
C17_NullVwap ==
    /\ FsReturned =>
         \A r \in SeriesIndexes :
            /\ SumField("volume_total", 1..r) = 0 => IsNA(output_df["vwap_day"][r])
            /\ \A w \in Windows :
                 SumField("volume_total", Trailing(r, w)) = 0 =>
                    IsNA(output_df[WindowColumn("vwap", w)][r])
    /\ FdReturned =>
         /\ SumField("volume_total", SeriesIndexes) = 0 => IsNA(output_df["vwap_day"])
         /\ \A w \in Windows :
              /\ SumField("volume_total", OpenRows(w)) = 0 =>
                    IsNA(output_df["vwap_open_" \o ToString(w)])
              /\ SumField("volume_total", CloseRows(w)) = 0 =>
                    IsNA(output_df["vwap_close_" \o ToString(w)])
    /\ pc = "fd_error" => ~WindowsFit

\* A day with volume whose first second has none: the open window of one
\* second has a null vwap next to a volume of 0, the day's vwap is set, and
\* the close window's too.
C17_Witness ==
    /\ FdReturned
    /\ time_windows = <<1>>
    /\ SumField("volume_total", OpenRows(1)) = 0
    /\ IsNA(output_df["vwap_open_1"])
    /\ output_df["volume_total_open_1"] = Some(0)
    /\ ~IsNA(output_df["vwap_day"])
    /\ ~IsNA(output_df["vwap_close_1"])

\* ---- C18
\* The snapshot fields named with `suffix` hold the values of the row of the
\* series whose timestamp is ts.
SnapshotOf(ts, suffix) ==
    \E k \in SeriesIndexes :
        /\ time_series_df[k].timestamp = ts
        /\ \A f \in SnapshotFields : output_df[f \o suffix] = time_series_df[k][f]

\* C18 as stated: for each window W the *_open_W snapshot fields are the
\* values of the row whose timestamp is exactly open_timestamp + W, and the
\* *_close_W fields those of the row whose timestamp is exactly
\* close_timestamp - W.
C18_Original ==
    FdReturned =>
        \A w \in Windows :
            /\ SnapshotOf(open_timestamp + w, "_open_" \o ToString(w))
            /\ SnapshotOf(close_timestamp - w, "_close_" \o ToString(w))

\* C18: for each window W the *_open_W snapshot fields are the values of the
\* row whose timestamp is exactly open_timestamp + W - 1, the last of the W
\* rows that start at the open row, and the *_close_W fields those of the row
\* whose timestamp is exactly close_timestamp - W + 1, the first of the W rows
\* that end at the close row.
C18_Snapshot ==
    FdReturned =>
        \A w \in Windows :
            /\ SnapshotOf(open_timestamp + w - 1, "_open_" \o ToString(w))
            /\ SnapshotOf(close_timestamp - w + 1, "_close_" \o ToString(w))

\* Window 2 in a session of three rows whose second and third row differ in
\* their bid, and whose first and second row differ in their last trade.
C18_Witness ==
    /\ FdReturned
    /\ time_windows = <<2>>
    /\ Len(time_series_df) = 3
    /\ open_slice_row = 0
    /\ close_slice_row = 3
    /\ time_series_df[2].bid_price # time_series_df[3].bid_price
    /\ time_series_df[1].last_trade_price # time_series_df[2].last_trade_price
    /\ output_df["bid_price_open_2"] = time_series_df[2].bid_price
    /\ output_df["last_trade_price_close_2"] = time_series_df[2].last_trade_price

\* ---- C19
\* C19: for each window W, volume_total_open_W is the sum of volume_total over
\* the W consecutive rows that start at the open row, volume_total_close_W the
\* sum over the W consecutive rows that end at the close row, and vwap_open_W
\* and vwap_close_W are sum(vwap * volume_total) / sum(volume_total) over the
\* same rows (null when those rows hold no volume).
C19_WindowTotals ==
    FdReturned =>
        \A w \in Windows :
            LET suffix == "_" \o ToString(w)
                Totals(rows, side) ==
                    /\ Cardinality(rows) = w
                    /\ output_df["volume_total_" \o side \o suffix]
                         = Some(SumField("volume_total", rows))
                    /\ IF SumField("volume_total", rows) > 0
                       THEN IsQuotient(output_df["vwap_" \o side \o suffix],
                                       SumNotional(rows),
                                       SumField("volume_total", rows))
                       ELSE IsNA(output_df["vwap_" \o side \o suffix])
            IN  /\ Totals(OpenRows(w), "open")
                /\ Totals(CloseRows(w), "close")

\* Window 2 in a session of three rows of volumes 1 (at 2), 3 (at 10/3) and 0:
\* 4 traded at 3 after the open, 3 traded at 10/3 before the close.
C19_Witness ==
    /\ FdReturned
    /\ time_windows = <<2>>
    /\ Len(time_series_df) = 3
    /\ time_series_df[1].volume_total = Some(1)
    /\ time_series_df[2].volume_total = Some(3)
    /\ time_series_df[3].volume_total = Some(0)
    /\ open_slice_row = 0
    /\ close_slice_row = 3
    /\ output_df["volume_total_open_2"] = Some(4)
    /\ output_df["vwap_open_2"] = Some(<<3, 1>>)
    /\ output_df["volume_total_close_2"] = Some(3)
    /\ output_df["vwap_close_2"] = Some(<<10, 3>>)

\* ---- C20
AnchorMissing ==
    \/ ~\E k \in SeriesIndexes : time_series_df[k].timestamp = open_timestamp
    \/ ~\E k \in SeriesIndexes : time_series_df[k].timestamp = close_timestamp

\* C20: get_time_window_df finds the open and the close row by exact
\* timestamp equality.  When no row has the open timestamp, or none the close
\* timestamp, the call fails and no frame is returned; it never goes on with
\* a nearest or a default row.  When it goes on, open_slice_row is the row at
\* open_timestamp and close_slice_row is one past the row at close_timestamp.
C20_ExactAnchors ==
    /\ AnchorMissing =>
         /\ pc \in {"fs_start", "fs_temp", "fs_day", "fs_windows", "fs_done",
                    "fd_start", "fd_day", "fd_anchors", "fd_error"}
         /\ pc \in {"fd_start", "fd_day", "fd_anchors", "fd_error"} =>
              output_df = NoFrame
    /\ pc \in {"fd_windows", "fd_done"} =>
         /\ time_series_df[open_slice_row + 1].timestamp = open_timestamp
         /\ time_series_df[close_slice_row].timestamp = close_timestamp

\* The configured session starts after the last row of the series: the close
\* row is there, the open row is not, and the call has failed.
C20_Witness ==
    /\ pc = "fd_error"
    /\ output_df = NoFrame
    /\ open_timestamp > time_series_df[Len(time_series_df)].timestamp
    /\ \E k \in SeriesIndexes : time_series_df[k].timestamp = close_timestamp

\* ---- C21
FirstTimestamp == time_series_df[1].timestamp

LastTimestamp == time_series_df[Len(time_series_df)].timestamp

\* features_day.main_lambda has computed open_timestamp and close_timestamp.
Clamped == pc \in {"fd_day", "fd_anchors", "fd_windows", "fd_done", "fd_error"}

\* C21 as stated: for every configuration the open_timestamp and the
\* close_timestamp main_lambda arrives at both lie within
\* [first row timestamp, last row timestamp].
C21_Original ==
    Clamped =>
        /\ FirstTimestamp <= open_timestamp /\ open_timestamp <= LastTimestamp
        /\ FirstTimestamp <= close_timestamp /\ close_timestamp <= LastTimestamp

\* C21: main_lambda sets open_timestamp to max(configured open, first row
\* timestamp) and close_timestamp to min(configured close, last row
\* timestamp): the open is never before the first row and the close never
\* after the last row.  (A configured open after the last row, or a configured
\* close before the first row, is passed on as it is.)
C21_Clamp ==
    [][pc = "fd_start" =>
        /\ open_timestamp' =
             (IF open_timestamp >= FirstTimestamp THEN open_timestamp ELSE FirstTimestamp)
        /\ close_timestamp' =
             (IF close_timestamp <= LastTimestamp THEN close_timestamp ELSE LastTimestamp)
        /\ open_timestamp' >= FirstTimestamp
        /\ close_timestamp' <= LastTimestamp]_vars

\* A session configured after the data: the close has come down to the last
\* row and the open is still after it.
C21_Witness ==
    /\ pc = "fd_day"
    /\ open_timestamp > LastTimestamp
    /\ close_timestamp = LastTimestamp

\* ---- C22
\* C22: features_day.get_output_df reports high_price and low_price as the
\* greatest and the least price key over all non-null volume_price_dict cells
\* of the series; whenever a frame is returned, each of the two is a price
\* that was traded in the series, and low_price <= high_price.
C22_HighLow ==
    FdReturned =>
        LET prices == PricesIn(SeriesIndexes)
            high == output_df["high_price"]
            low == output_df["low_price"]
        IN  /\ ~IsNA(high) /\ ~IsNA(low)
            /\ \E price \in prices : high = Some(Float(price))
            /\ \E price \in prices : low = Some(Float(price))
            /\ \A price \in prices : FLeq(Float(price), Val(high))
            /\ \A price \in prices : FLeq(Val(low), Float(price))
            /\ FLeq(Val(low), Val(high))

\* A frame returned for a series without a single trade: high_price is the
\* least float64 and low_price the greatest.
C22_NoTradeDay ==
    /\ FdReturned
    /\ PricesIn(SeriesIndexes) = {}
    /\ output_df["high_price"] = Some(Float(FinfoMin))
    /\ output_df["low_price"] = Some(Float(FinfoMax))

\* ---------------------------------------------------------------------------
\* join_columns.get_output_df
\* ---------------------------------------------------------------------------
\* A frame is a record: its column names in order, its row labels, the name
\* of the row labels ("" for the default labels 0, 1, ...), and its rows,
\* each a sequence of cells in column order.

MaxFrames == 2
MaxKey == 2
MaxJoinRows == 4

RangeIndex(n) == [r \in 1..n |-> r - 1]

Range(seq) == {seq[n] : n \in DOMAIN seq}

\* The sequence without its element at position pos.
RemoveAt(seq, pos) ==
    [n \in 1..(Len(seq) - 1) |-> IF n < pos THEN seq[n] ELSE seq[n + 1]]

RECURSIVE Flatten(_)
Flatten(seqs) ==
    IF seqs = <<>> THEN <<>> ELSE Head(seqs) \o Flatten(Tail(seqs))

\* pd.read_csv: a frame with the default row labels.
DataFrame(columns, data) ==
    [columns |-> columns, index |-> RangeIndex(Len(data)), index_name |-> "",
     data |-> data]

\* `name in df`
HasColumn(df, name) == name \in Range(df.columns)

\* df.add_prefix(prefix): every column name, the index column's included.
add_prefix(df, prefix) ==
    [df EXCEPT !.columns = [c \in DOMAIN df.columns |-> prefix \o df.columns[c]]]

\* df.set_index(name, inplace=True): the column leaves the columns and
\* becomes the row labels.
set_index(df, name) ==
    LET pos == CHOOSE c \in DOMAIN df.columns : df.columns[c] = name
    IN  [columns |-> RemoveAt(df.columns, pos),
         index |-> [r \in DOMAIN df.data |-> df.data[r][pos]],
         index_name |-> name,
         data |-> [r \in DOMAIN df.data |-> RemoveAt(df.data[r], pos)]]

\* df.index.rename(name, inplace=True)
rename_index(df, name) == [df EXCEPT !.index_name = name]

Intersection_Left(index, other) == index

\* Index.intersection(other, sort=False): the labels of index that other
\* holds too, in the order of index.
Intersection(index, other) ==
    SelectSeq(index, LAMBDA label : label \in Range(other))

\* The labels of index followed by those of other that index lacks.
Union(index, other) ==
    index \o SelectSeq(other, LAMBDA label : label \notin Range(index))

RECURSIVE CombinedIndex(_, _)
CombinedIndex(frames, join) ==
    IF Len(frames) = 1 THEN frames[1].index
    ELSE LET rest == CombinedIndex(SubSeq(frames, 1, Len(frames) - 1), join)
             last == frames[Len(frames)].index
         IN  IF join = "inner" THEN Intersection(rest, last)
             ELSE Union(rest, last)

\* The cells of df in the row labelled label, nulls when df has no such row.
RowOf(df, label) ==
    IF label \in Range(df.index)
    THEN df.data[CHOOSE r \in DOMAIN df.index : df.index[r] = label]
    ELSE [c \in DOMAIN df.columns |-> NA]

\* pd.concat(frames, axis=1, join=join): the columns of the frames side by
\* side, over the combined row labels.
concat(frames, join) ==
    IF frames = <<>> THEN DataFrame(<<>>, <<>>)
    ELSE LET index == CombinedIndex(frames, join)
         IN  [columns |-> Flatten([k \in DOMAIN frames |-> frames[k].columns]),
              index |-> index,
              index_name |-> frames[1].index_name,
              data |-> [r \in DOMAIN index |->
                           Flatten([k \in DOMAIN frames |->
                                       RowOf(frames[k], index[r])])]]

\* df.reset_index(level=0, inplace=True): the row labels come back as the
\* first column, under their name.
reset_index(df) ==
    [columns |-> <<df.index_name>> \o df.columns,
     index |-> RangeIndex(Len(df.data)),
     index_name |-> "",
     data |-> [r \in DOMAIN df.data |-> <<df.index[r]>> \o df.data[r]]]

\* lines 41-47
AddPrefix(frames, prefixes) ==
    [k \in DOMAIN frames |->
        IF prefixes[k] # "" THEN add_prefix(frames[k], prefixes[k] \o "_")
        ELSE frames[k]]

\* lines 58-67
SetIndex(frames, prefixes, name) ==
    [k \in DOMAIN frames |->
        IF prefixes[k] # ""
        THEN rename_index(set_index(frames[k], prefixes[k] \o "_" \o name), name)
        ELSE set_index(frames[k], name)]

\* lines 52-53: some frame lacks the index column.
IndexColumnMissing_First(frames, name) ==
    frames # <<>> /\ ~HasColumn(frames[1], name)

IndexColumnMissing(frames, name) ==
    \E k \in DOMAIN frames : ~HasColumn(frames[k], name)

\* lines 75-76: some frame's row count differs from the first's.
RowCountsDiffer(frames) ==
    \E k \in DOMAIN frames : Len(frames[k].data) # Len(frames[1].data)

\* The inputs: frames whose "timestamp" column holds distinct values, as the
\* series written by the stages do; the cell of column "x" in frame k is
\* 10 * timestamp + k.
KeyLists ==
    {keys \in UNION {[1..n -> 1..MaxKey] : n \in 0..MaxKey} :
        \A a, b \in DOMAIN keys : keys[a] = keys[b] => a = b}

ColumnLists == {<<"x", "timestamp">>, <<"x">>}

Cell(column, key, k) == IF column = "timestamp" THEN key ELSE 10 * key + k

InputFrame(columns, keys, k) ==
    DataFrame(columns,
              [r \in DOMAIN keys |->
                  [c \in DOMAIN columns |-> Cell(columns[c], keys[r], k)]])

RECURSIVE TotalRows(_)
TotalRows(frames) ==
    IF frames = <<>> THEN 0
    ELSE Len(Head(frames).data) + TotalRows(Tail(frames))

Prefixes == {"", "p"}

InitJoin ==
    /\ \E n \in 1..MaxFrames :
        /\ \E columns \in [1..n -> ColumnLists], keys \in [1..n -> KeyLists] :
            /\ data_frames = [k \in 1..n |-> InputFrame(columns[k], keys[k], k)]
            /\ TotalRows(data_frames) <= MaxJoinRows
        /\ column_prefixes \in [1..n -> Prefixes]
    /\ index_column_name \in {"", "timestamp"}
    /\ data_frames_output = <<>>
    /\ DownloadIdle
    /\ PipelineIdle
    /\ pc = "jc_start"
    /\ time_series_df = <<>>
    /\ time_windows = <<>>
    /\ open_timestamp = 0
    /\ close_timestamp = 0
    /\ temp_df = NoFrame
    /\ output_df = NoFrame
    /\ window_pos = 0
    /\ open_slice_row = 0
    /\ close_slice_row = 0
    /\ quotes_df = <<>>
    /\ trades_df = <<>>
    /\ seconds_df = <<>>
    /\ i = 0
    /\ current_timestamp = 0
    /\ quotes_row = 0
    /\ trades_row = 0
    /\ last_value = LastValueInit
    /\ volume_price_dict = <<>>
    /\ total = TotalInit
    /\ trade_conditions = {}
    /\ discard_df = <<>>
    /\ s3_output = NA

\* What join_columns.get_output_df never touches.
outside_join == <<quotes_df, trades_df, seconds_df, i, current_timestamp,
                  quotes_row, trades_row, last_value, volume_price_dict,
                  total, trade_conditions, discard_df, s3_output,
                  time_series_df, time_windows, open_timestamp,
                  close_timestamp, temp_df, window_pos, open_slice_row,
                  close_slice_row, download_state, pipeline_state>>

\* lines 41-47: the renamed copies.
CopyFrames ==
    /\ pc = "jc_start"
    /\ data_frames_output' = AddPrefix(data_frames, column_prefixes)
    /\ pc' = IF index_column_name # "" THEN "jc_index" ELSE "jc_rows"
    /\ UNCHANGED <<outside_join, data_frames, column_prefixes,
                   index_column_name, output_df>>

\* lines 49-56: every frame must hold the index column, or sys.exit(1).
CheckIndexColumn ==
    /\ pc = "jc_index"
    /\ pc' = IF IndexColumnMissing(data_frames, index_column_name)
             THEN "jc_exit" ELSE "jc_join"
    /\ UNCHANGED <<outside_join, join_state, output_df>>

\* lines 58-70: the inner join on the index column.
JoinOnIndex ==
    /\ pc = "jc_join"
    /\ data_frames_output' =
           SetIndex(data_frames_output, column_prefixes, index_column_name)
    /\ output_df' = reset_index(concat(data_frames_output', "inner"))
    /\ pc' = "jc_done"
    /\ UNCHANGED <<outside_join, data_frames, column_prefixes,
                   index_column_name>>

\* lines 72-79: every frame must have the first frame's row count, or
\* sys.exit(1).
CheckRowCounts ==
    /\ pc = "jc_rows"
    /\ pc' = IF RowCountsDiffer(data_frames) THEN "jc_exit" ELSE "jc_concat"
    /\ UNCHANGED <<outside_join, join_state, output_df>>

\* line 81
ConcatColumns ==
    /\ pc = "jc_concat"
    /\ output_df' = concat(data_frames_output, "outer")
    /\ pc' = "jc_done"
    /\ UNCHANGED <<outside_join, join_state>>

NextJoin ==
    \/ CopyFrames
    \/ CheckIndexColumn
    \/ JoinOnIndex
    \/ CheckRowCounts
    \/ ConcatColumns

SpecJoin == InitJoin /\ [][NextJoin]_vars

\* ---- C23
JoinReturned == pc = "jc_done"

JoinExited == pc = "jc_exit"

\* An index column is named and some frame lacks it, or none is named and
\* two frames differ in row count.
Inconsistent ==
    \/ /\ index_column_name # ""
       /\ \E k \in DOMAIN data_frames :
              \A c \in DOMAIN data_frames[k].columns :
                  data_frames[k].columns[c] # index_column_name
    \/ /\ index_column_name = ""
       /\ \E j, k \in DOMAIN data_frames :
              Len(data_frames[j].data) # Len(data_frames[k].data)

\* C23: for inconsistent inputs (an index column that some frame lacks; no
\* index column and unequal row counts) get_output_df never joins and never
\* returns a frame: it goes on until it exits.
C23_Rejects ==
    Inconsistent =>
        /\ pc \in {"jc_start", "jc_index", "jc_rows", "jc_exit"}
        /\ output_df = NoFrame
        /\ ~JoinExited => ENABLED NextJoin

\* The exit for an index column that the second frame lacks and the first has.
C23_Witness ==
    /\ JoinExited
    /\ index_column_name = "timestamp"
    /\ Len(data_frames) = 2
    /\ "timestamp" \in Range(data_frames[1].columns)
    /\ "timestamp" \notin Range(data_frames[2].columns)
    /\ output_df = NoFrame

\* ---- C24
\* The position of the index column in input frame k.
KeyColumn(k) ==
    CHOOSE c \in DOMAIN data_frames[k].columns :
        data_frames[k].columns[c] = index_column_name

\* The index values of input frame k.
KeysOf(k) ==
    {data_frames[k].data[r][KeyColumn(k)] : r \in DOMAIN data_frames[k].data}

\* The index values that every input frame holds.
CommonKeys == {key \in KeysOf(1) : \A k \in DOMAIN data_frames : key \in KeysOf(k)}

\* The name under which a column of frame k goes out.
Renamed(k, column) ==
    IF column_prefixes[k] = "" THEN column
    ELSE column_prefixes[k] \o "_" \o column

\* The columns of frame k other than the index column, renamed.
OtherColumns(k) ==
    LET columns == RemoveAt(data_frames[k].columns, KeyColumn(k))
    IN  [c \in DOMAIN columns |-> Renamed(k, columns[c])]

\* The cells of frame k in its row of index value key, the index cell apart.
OtherCells(k, key) ==
    LET r == CHOOSE r \in DOMAIN data_frames[k].data :
                 data_frames[k].data[r][KeyColumn(k)] = key
    IN  RemoveAt(data_frames[k].data[r], KeyColumn(k))

C25_SinglePass ==
    /\ [](/\ 0 <= quotes_row /\ quotes_row <= Len(quotes_df)
          /\ 0 <= trades_row /\ trades_row <= Len(trades_df)
          /\ quotes_row + trades_row <= Len(quotes_df) + Len(trades_df))
    /\ [][/\ quotes_row' \in {quotes_row, quotes_row + 1}
          /\ trades_row' \in {trades_row, trades_row + 1}
          /\ quotes_row' = quotes_row \/ trades_row' = trades_row
          /\ QuoteStep => quotes_row < Len(quotes_df)
          /\ TradeStep => trades_row < Len(trades_df)
          /\ QuoteExit => quotes_row - 1 < Len(quotes_df)]_vars

\* A run over two rows or more that consumed every quote and every trade.
C25_Witness ==
    /\ Returned
    /\ Len(seconds_df) >= 2
    /\ Len(quotes_df) >= 2
    /\ Len(trades_df) >= 1
    /\ quotes_row = Len(quotes_df)
    /\ trades_row = Len(trades_df)

\* ---- C27
RECURSIVE SumRows(_, _)
\* The sum of a field over the first n rows.
SumRows(field, n) ==
    IF n = 0 THEN 0 ELSE Val(seconds_df[n][field]) + SumRows(field, n - 1)

\* The trades with timestamp / 10^9 <= the last row's timestamp.
TradesInTime ==
    {k \in 1..Len(trades_df) :
        trades_df[k].sip_timestamp
            <= seconds_df[Len(seconds_df)].timestamp * SubSecond}

\* The rows that count tick k of the stream.
RowsCounting(stream, k) == {r \in RowIndexes : k \in TicksOfRow(stream, r)}

\* C27: in the frame returned, every quote is counted in exactly one row:
\* the message_count_quote cells add up to len(quotes) and the quote cursor
\* ends at len(quotes); every trade with timestamp / 10^9 <= the last row's
\* timestamp is counted in exactly one row: the volume_total cells add up
\* to the total size of those trades; a later trade is counted in no row.
C27_Conservation ==
    Returned =>
        /\ quotes_row = Len(quotes_df)
        /\ SumRows("message_count_quote", Len(seconds_df)) = Len(quotes_df)
        /\ \A r \in RowIndexes :
               /\ seconds_df[r].message_count_quote
                      = Some(Cardinality(TicksOfRow(quotes_df, r)))
               /\ seconds_df[r].message_count_trade
                      = Some(Cardinality(TicksOfRow(trades_df, r)))
               /\ seconds_df[r].volume_total
                      = Some(SumSize(TicksOfRow(trades_df, r)))
        /\ \A k \in 1..Len(quotes_df) :
               Cardinality(RowsCounting(quotes_df, k)) = 1
        /\ \A k \in TradesInTime :
               Cardinality(RowsCounting(trades_df, k)) = 1
        /\ SumRows("volume_total", Len(seconds_df)) = SumSize(TradesInTime)
        /\ SumRows("message_count_trade", Len(seconds_df))
               = Cardinality(TradesInTime)
        /\ trades_row = Cardinality(TradesInTime)
        /\ \A k \in (1..Len(trades_df)) \ TradesInTime :
               RowsCounting(trades_df, k) = {}

\* Two rows, a trade counted and a trade after the last row.
C27_Witness ==
    /\ Returned
    /\ Len(seconds_df) >= 2
    /\ Len(trades_df) = 2
    /\ TradesInTime = {1}
    /\ trades_df[1].size > 0
    /\ trades_df[2].size > 0
    /\ SumRows("volume_total", Len(seconds_df)) = trades_df[1].size

\* ---- C28
\* C28: with a quote stream that is not empty, the quote loop of every row,
\* the first included, leaves the quote cursor >= 1: the forward fill reads
\* a quote already consumed, never index -1; and bid_price, bid_size,
\* ask_price and ask_size are non-null in every row of the frame returned.
C28_FirstRow ==
    /\ [](Len(quotes_df) > 0 =>
            /\ pc = "trades" => quotes_row >= 1
            /\ Returned =>
                   \A r \in RowIndexes :
                       \A f \in QuoteFields : ~IsNA(seconds_df[r][f]))
    /\ [][Len(quotes_df) > 0 /\ QuoteExit =>
              /\ quotes_row >= 1
              /\ pc' = "trades"
              /\ \A f \in QuoteFields : ~IsNA(last_value'[f])]_vars

\* The first row's quote loop ended on a first quote that falls on the very
\* second of the row.
C28_Witness ==
    /\ pc = "trades"
    /\ i = 0
    /\ quotes_row = 1
    /\ Len(quotes_df) >= 2
    /\ quotes_df[1].sip_timestamp = current_timestamp * SubSecond
    /\ ~IsNA(last_value.bid_price)

\* ---------------------------------------------------------------------------
\* polygon_download.fetch_csv_data
\* ---------------------------------------------------------------------------
\* A result is a record [q, t]: its sequence number and its SIP timestamp;
\* the other fields of a result go into the CSV row the same way and are
\* left out.

MaxDayTicks == 4
MaxDayTs == 3
MaxLimit == 3

\* The API's data for one symbol and date: ascending by timestamp, numbered
\* in that order.
DayTicks ==
    UNION {{[k \in 1..n |-> [q |-> k, t |-> ts[k]]] :
               ts \in {f \in [1..n -> 1..MaxDayTs] :
                          \A k \in 1..(n - 1) : f[k] <= f[k + 1]}}
           : n \in 0..MaxDayTicks}

\* client.historic_trades_v2(timestamp=timestamp, limit=limit): the first
\* limit results at or after timestamp.
HistoricTrades(ticks, timestamp, limit) ==
    LET results == SelectSeq(ticks, LAMBDA result : result.t >= timestamp)
    IN  SubSeq(results, 1, IF Len(results) < limit THEN Len(results) ELSE limit)

\* lines 139-146
get_csv_header == "sequence_number,sip_timestamp"

\* lines 186-192: '{},{}'.format(result['q'], result['t'])
CsvRow(result) == ToString(result.q) \o "," \o ToString(result.t)

RECURSIVE TrailingCount(_, _, _)
\* lines 170-178: the number of passes of the while loop that pop a row,
\* counted from j = -1; at j = -(len + 1) the read of last[j] raises.
TrailingCount(last, t, n) ==
    IF n < Len(last) /\ last[Len(last) - n].t = t
    THEN TrailingCount(last, t, n + 1)
    ELSE n

\* lines 151-192: the rows after the call, and whether the call raised
\* IndexError (the while loop ran off the front of last_results, or popped
\* from an empty list).
append_csv_rows(csv, results, last) ==
    IF results = <<>> THEN [csv |-> csv, raised |-> FALSE]
    ELSE IF last = "None"
    THEN [csv |-> csv \o [k \in DOMAIN results |-> CsvRow(results[k])],
          raised |-> FALSE]
    ELSE LET pops == TrailingCount(last, results[1].t, 0)
         IN  IF pops > Len(csv)
             THEN [csv |-> <<>>, raised |-> TRUE]
             ELSE IF pops = Len(last)
             THEN [csv |-> SubSeq(csv, 1, Len(csv) - pops), raised |-> TRUE]
             ELSE [csv |-> SubSeq(csv, 1, Len(csv) - pops)
                           \o [k \in DOMAIN results |-> CsvRow(results[k])],
                   raised |-> FALSE]

\* lines 217-223
InitDownload ==
    /\ day_ticks \in DayTicks
    /\ response_limit \in 1..MaxLimit
    /\ min_timestamp = 0
    /\ last_results = "None"
    /\ csv_strings = <<get_csv_header>>
    /\ response = <<>>
    /\ api_results = <<>>
    /\ pc = "dl_fetch"
    /\ JoinIdle
    /\ PipelineIdle
    /\ FeaturesIdle
    /\ quotes_df = <<>>
    /\ trades_df = <<>>
    /\ seconds_df = <<>>
    /\ i = 0
    /\ current_timestamp = 0
    /\ quotes_row = 0
    /\ trades_row = 0
    /\ last_value = LastValueInit
    /\ volume_price_dict = <<>>
    /\ total = TotalInit
    /\ trade_conditions = {}
    /\ discard_df = <<>>
    /\ s3_output = NA

\* What fetch_csv_data never touches.
outside_download == <<quotes_df, trades_df, seconds_df, i, current_timestamp,
                      quotes_row, trades_row, last_value, volume_price_dict,
                      total, trade_conditions, discard_df, s3_output,
                      features_state, join_state, pipeline_state>>

\* lines 225-246: one request, answered.
Fetch ==
    /\ pc = "dl_fetch"
    /\ response' = HistoricTrades(day_ticks, min_timestamp, response_limit)
    /\ api_results' = api_results \o response'
    /\ pc' = "dl_append"
    /\ UNCHANGED <<outside_download, day_ticks, response_limit, min_timestamp,
                   last_results, csv_strings>>

\* lines 242-244: the request failed, sys.exit(1).
FetchFails ==
    /\ pc = "dl_fetch"
    /\ pc' = "dl_exit"
    /\ UNCHANGED <<outside_download, download_state>>

\* lines 248-258: the rows of this page, then the end of the loop or the
\* state of the next request.
AppendPage ==
    /\ pc = "dl_append"
    /\ LET appended == append_csv_rows(csv_strings, response, last_results)
       IN  /\ csv_strings' = appended.csv
           /\ IF appended.raised
              THEN /\ pc' = "dl_raised"
                   /\ UNCHANGED <<min_timestamp, last_results>>
              ELSE IF Len(response) < response_limit
              THEN /\ pc' = "dl_done"
                   /\ UNCHANGED <<min_timestamp, last_results>>
              ELSE /\ min_timestamp' = response[Len(response)].t
                   /\ last_results' = response
                   /\ pc' = "dl_fetch"
    /\ UNCHANGED <<outside_download, day_ticks, response_limit, response,
                   api_results>>

NextDownload ==
    \/ Fetch
    \/ FetchFails
    \/ AppendPage

SpecDownload == InitDownload /\ [][NextDownload]_vars

\* ---- C26
RECURSIVE Distinct(_)
\* The results of a sequence, each at its first place only.
Distinct(results) ==
    IF results = <<>> THEN <<>>
    ELSE LET front == Distinct(SubSeq(results, 1, Len(results) - 1))
             last == results[Len(results)]
         IN  IF last \in Range(front) THEN front ELSE Append(front, last)

\* The previous page's trailing results whose timestamp is that of the first
\* result of the new page.
TrailingDuplicates ==
    IF last_results = "None" \/ response = <<>> THEN {}
    ELSE {k \in DOMAIN last_results :
             \A n \in k..Len(last_results) : last_results[n].t = response[1].t}

\* C26: handling a page removes from the end of the CSV exactly the previous
\* page's trailing rows whose timestamp is that of the new page's first
\* result, and appends the new page; after any number of pages the CSV is
\* the header followed by every result the API has returned, once each, in
\* the order of arrival; the header is never removed.
C26_ExactlyOnce ==
    /\ [](/\ csv_strings # <<>>
          /\ csv_strings[1] = get_csv_header
          /\ pc \in {"dl_fetch", "dl_done", "dl_raised"} =>
                 LET results == Distinct(api_results)
                 IN  csv_strings = <<get_csv_header>>
                         \o [k \in DOMAIN results |-> CsvRow(results[k])])
    /\ [][pc = "dl_append" =>
              LET kept == Len(csv_strings) - Cardinality(TrailingDuplicates)
              IN  /\ Len(csv_strings') >= kept
                  /\ SubSeq(csv_strings', 1, kept) = SubSeq(csv_strings, 1, kept)
                  /\ pc' # "dl_raised" =>
                         Len(csv_strings') = kept + Len(response)]_vars

\* The call raised IndexError on a page that repeats the previous page: every
\* result of the previous page has the timestamp of the new page's first
\* result, and the rows of results the API returned are gone from the CSV.
C26_Raised ==
    /\ pc = "dl_raised"
    /\ response_limit = 2
    /\ Len(last_results) = 2
    /\ last_results[1].t = last_results[2].t
    /\ response = last_results
    /\ csv_strings = <<get_csv_header>>

\* ---------------------------------------------------------------------------
\* The earlier resampler: polygon-time-series create_seconds_df
\* ---------------------------------------------------------------------------
\* Its frame starts as init_seconds_df's does (lines 35-68); its cursors stop
\* at the last index of their stream instead of moving past it.

RECURSIVE LegacyQuoteLoop(_, _, _, _)
\* lines 91-97: the cursor and message_count_quote after the quote loop.
LegacyQuoteLoop(quotes, row, count, ts) ==
    IF SecondsLeq(quotes[row + 1].sip_timestamp, ts)
    THEN IF row < Len(quotes) - 1
         THEN LegacyQuoteLoop(quotes, row + 1, count + 1, ts)
         ELSE [quotes_row |-> row, message_count_quote |-> count + 1]
    ELSE [quotes_row |-> row, message_count_quote |-> count]

\* lines 99-102: the quote at index max(0, quotes_row - 1).
LegacyLastQuote(quotes, row) ==
    LET quote == quotes[(IF row - 1 > 0 THEN row - 1 ELSE 0) + 1]
    IN  [bid_price |-> Some(quote.bid_price),
         bid_size |-> Some(quote.bid_size * 100),
         ask_price |-> Some(quote.ask_price),
         ask_size |-> Some(quote.ask_size * 100)]

RECURSIVE LegacyTradeLoop(_, _, _, _)
\* lines 105-133: the cursor, the last trade price and the second's sums
\* after the trade loop.
LegacyTradeLoop(trades, st, quote, ts) ==
    IF SecondsLeq(trades[st.trades_row + 1].sip_timestamp, ts)
    THEN LET trade == trades[st.trades_row + 1]
             last == [ask_price |-> quote.ask_price,
                      bid_price |-> quote.bid_price,
                      trade_price |-> Some(trade.price)]
             counted ==
                 [st EXCEPT
                    !.last_trade_price = Some(trade.price),
                    !.volume_total = @ + trade.size,
                    !.vwap = @ + trade.size * trade.price,
                    !.volume_price_dict =
                        DictAdd(@, PriceKey(trade.price), trade.size),
                    !.volume_aggressive_buy =
                        IF IsAggressiveBuy(last) THEN @ + trade.size ELSE @,
                    !.volume_aggressive_sell =
                        IF IsAggressiveSell(last) THEN @ + trade.size ELSE @,
                    !.message_count_trade = @ + 1]
         IN  IF st.trades_row < Len(trades) - 1
             THEN LegacyTradeLoop(trades,
                                  [counted EXCEPT !.trades_row = @ + 1],
                                  quote, ts)
             ELSE counted
    ELSE st

\* lines 81-159: row r of the frame and the loop state after it.
LegacyRow(quotes, trades, st, ts) ==
    LET quoted == LegacyQuoteLoop(quotes, st.quotes_row, 0, ts)
        quote == LegacyLastQuote(quotes, quoted.quotes_row)
        traded == LegacyTradeLoop(trades,
                                  [trades_row |-> st.trades_row,
                                   last_trade_price |-> st.last_trade_price,
                                   vwap |-> 0,
                                   volume_price_dict |-> <<>>,
                                   volume_total |-> 0,
                                   volume_aggressive_buy |-> 0,
                                   volume_aggressive_sell |-> 0,
                                   message_count_trade |-> 0],
                                  quote, ts)
    IN  [st |-> [quotes_row |-> quoted.quotes_row,
                 trades_row |-> traded.trades_row,
                 last_trade_price |-> traded.last_trade_price],
         row |-> [timestamp |-> ts,
                  bid_price |-> quote.bid_price,
                  bid_size |-> quote.bid_size,
                  ask_price |-> quote.ask_price,
                  ask_size |-> quote.ask_size,
                  last_trade_price |-> traded.last_trade_price,
                  vwap |-> IF traded.volume_total > 0
                           THEN Some(Div(traded.vwap, traded.volume_total))
                           ELSE NA,
                  volume_price_dict |->
                      IF traded.volume_price_dict # <<>>
                      THEN Some(JsonDumps(traded.volume_price_dict))
                      ELSE Some(""),
                  volume_total |-> Some(traded.volume_total),
                  volume_aggressive_buy |-> Some(traded.volume_aggressive_buy),
                  volume_aggressive_sell |-> Some(traded.volume_aggressive_sell),
                  message_count_quote |-> Some(quoted.message_count_quote),
                  message_count_trade |-> Some(traded.message_count_trade)]]

RECURSIVE LegacyRows(_, _, _, _, _)
\* line 81: for i in range(len(seconds_df)), from row r on.
LegacyRows(quotes, trades, frame, r, st) ==
    IF r > Len(frame) THEN frame
    ELSE LET done == LegacyRow(quotes, trades, st, frame[r].timestamp)
         IN  LegacyRows(quotes, trades, [frame EXCEPT ![r] = done.row],
                        r + 1, done.st)

\* lines 19-161, for streams that are not empty.
create_seconds_df(quotes, trades) ==
    LegacyRows(quotes, trades, init_seconds_df(quotes), 1,
               [quotes_row |-> 0, trades_row |-> 0, last_trade_price |-> NA])

\* ---- C29
ComparedFields ==
    {"bid_price", "bid_size", "ask_price", "ask_size", "last_trade_price",
     "volume_total", "volume_aggressive_buy", "volume_aggressive_sell",
     "message_count_quote", "message_count_trade"}

\* C29: for sorted streams, neither empty, the frame create_seconds_df
\* returns has the rows of the frame get_seconds_df returns, and the same
\* value in every row for the quote fields, last_trade_price, the three
\* volumes and the two message counts.
C29_SameRows ==
    Returned /\ Len(trades_df) > 0 =>
        LET legacy_df == create_seconds_df(quotes_df, trades_df)
        IN  /\ Len(legacy_df) = Len(seconds_df)
            /\ \A r \in RowIndexes :
                   \A f \in ComparedFields : legacy_df[r][f] = seconds_df[r][f]

\* One trade, in the first of two seconds: get_seconds_df counts it in the
\* first row only, create_seconds_df in both.
C29_CountedTwice ==
    /\ Returned
    /\ Len(seconds_df) = 2
    /\ Len(trades_df) = 1
    /\ trades_df[1].size > 0
    /\ seconds_df[1].volume_total = Some(trades_df[1].size)
    /\ seconds_df[2].volume_total = Some(0)
    /\ LET legacy_df == create_seconds_df(quotes_df, trades_df)
       IN  /\ legacy_df[1].volume_total = Some(trades_df[1].size)
           /\ legacy_df[2].volume_total = Some(trades_df[1].size)

\* ---------------------------------------------------------------------------
\* pipeline.run_stage
\* ---------------------------------------------------------------------------
\* A date_symbol_dict is the set of its (date, symbol) pairs.

MaxRetry == 3
MaxPairs == 2

\* line 25: the while condition.
RetryAllowed_OneMore(retries, max_retries) == retries <= max_retries + 1

RetryAllowed(retries, max_retries) == retries <= max_retries

\* lambda_invoke.get_pending_invocations(date_symbol_dict): the pairs whose
\* output objects are missing from S3 at the time of the call.
PendingInvocations(pairs) == SUBSET pairs

InitPipeline ==
    /\ date_symbol_dict \in SUBSET (1..MaxPairs)
    /\ max_retry_count \in 0..MaxRetry
    /\ retry_count = 0
    /\ pending_date_symbol_dict = {}
    /\ run_calls = 0
    /\ pc = "rs_while"
    /\ JoinIdle
    /\ DownloadIdle
    /\ FeaturesIdle
    /\ quotes_df = <<>>
    /\ trades_df = <<>>
    /\ seconds_df = <<>>
    /\ i = 0
    /\ current_timestamp = 0
    /\ quotes_row = 0
    /\ trades_row = 0
    /\ last_value = LastValueInit
    /\ volume_price_dict = <<>>
    /\ total = TotalInit
    /\ trade_conditions = {}
    /\ discard_df = <<>>
    /\ s3_output = NA

\* What run_stage never touches.
outside_pipeline == <<quotes_df, trades_df, seconds_df, i, current_timestamp,
                      quotes_row, trades_row, last_value, volume_price_dict,
                      total, trade_conditions, discard_df, s3_output,
                      features_state, join_state, download_state>>

\* lines 25-27: a pass of the while loop asks what is pending.
GetPending ==
    /\ pc = "rs_while"
    /\ RetryAllowed(retry_count, max_retry_count)
    /\ pending_date_symbol_dict' \in PendingInvocations(date_symbol_dict)
    /\ pc' = "rs_pending"
    /\ UNCHANGED <<outside_pipeline, date_symbol_dict, max_retry_count,
                   retry_count, run_calls>>

\* lines 28-29: nothing is pending, return.
ReturnDone ==
    /\ pc = "rs_pending"
    /\ pending_date_symbol_dict = {}
    /\ pc' = "rs_returned"
    /\ UNCHANGED <<outside_pipeline, pipeline_state>>

\* lines 31-35: run the pending invocations, sleep, count the retry;
\* lambda_invoke.run exits with status 1 when an invoke is refused.
RunPending ==
    /\ pc = "rs_pending"
    /\ pending_date_symbol_dict # {}
    /\ run_calls' = run_calls + 1
    /\ \/ /\ retry_count' = retry_count + 1
          /\ pc' = "rs_while"
       \/ /\ pc' = "rs_exit"
          /\ UNCHANGED retry_count
    /\ UNCHANGED <<outside_pipeline, date_symbol_dict, max_retry_count,
                   pending_date_symbol_dict>>

\* lines 37-38: the retries are used up, ask once more.
GetPendingLast ==
    /\ pc = "rs_while"
    /\ ~RetryAllowed(retry_count, max_retry_count)
    /\ pending_date_symbol_dict' \in PendingInvocations(date_symbol_dict)
    /\ pc' = "rs_last"
    /\ UNCHANGED <<outside_pipeline, date_symbol_dict, max_retry_count,
                   retry_count, run_calls>>

\* lines 39-43: sys.exit(1) when something is still pending.
ExitOrReturn ==
    /\ pc = "rs_last"
    /\ pc' = IF pending_date_symbol_dict # {} THEN "rs_exit" ELSE "rs_returned"
    /\ UNCHANGED <<outside_pipeline, pipeline_state>>

NextPipeline ==
    \/ GetPending
    \/ ReturnDone
    \/ RunPending
    \/ GetPendingLast
    \/ ExitOrReturn

SpecPipeline == InitPipeline /\ [][NextPipeline]_vars

\* run_stage runs in one thread and every call it makes returns: a step that
\* can be taken is taken.
FairPipeline ==
    InitPipeline /\ [][NextPipeline]_vars /\ WF_vars(NextPipeline)

\* ---- C30
StageReturned == pc = "rs_returned"

StageExited == pc = "rs_exit"

\* C30: run_stage terminates; it calls lambda_invoke.run at most
\* max_retry_count + 1 times and never when get_pending_invocations has just
\* returned an empty dict; it returns normally only after an empty dict was
\* returned; when invocations are pending after the last retry it exits
\* with status 1.
C30_RunStage ==
    /\ <>(StageReturned \/ StageExited)
    /\ [](run_calls <= max_retry_count + 1)
    /\ [][run_calls' # run_calls => pending_date_symbol_dict # {}]_vars
    /\ [](StageReturned => pending_date_symbol_dict = {})
    /\ [][StageReturned' /\ ~StageReturned =>
              pending_date_symbol_dict = {} /\ pc \in {"rs_pending", "rs_last"}]_vars
    /\ [](pc = "rs_last" /\ pending_date_symbol_dict # {} => <>StageExited)
    /\ [][pc = "rs_last" /\ pending_date_symbol_dict # {} => StageExited']_vars

\* The exit after the last retry: run was called max_retry_count + 1 times
\* and a pair is pending still.
C30_Witness ==
    /\ StageExited
    /\ max_retry_count = MaxRetry
    /\ retry_count = max_retry_count + 1
    /\ run_calls = max_retry_count + 1
    /\ pending_date_symbol_dict # {}

====
